---- MODULE Spec2Model ----
(***************************************************************************)
(* A model of the guck / hunch Python SDK emission pipeline:               *)
(*   emit.py   the emission facade (cache, write-disabled latch)           *)
(*   auto.py   the stdout/stderr capture adapter                           *)
(*   redact.py the redaction engine                                        *)
(*   store.py  the JSON-lines store                                        *)
(*                                                                         *)
(* Text is a sequence of atoms.  An atom is one character ("LF", "CR",     *)
(* "VT", "SP") or a run of characters that holds no whitespace ("a",       *)
(* "token").  "VT" stands for every line boundary of str.splitlines other  *)
(* than "\n" and "\r": \v, \f, \x1c, \x1d, \x1e, \x85, U+2028, U+2029.     *)
(***************************************************************************)
EXTENDS Integers, Sequences, FiniteSets, TLC

VARIABLES
    variant,         \* the SDK the process has imported: "guck" or "hunch"
    default_session_id, \* emit._DEFAULT_SESSION_ID
    env,             \* os.environ and the config file, as load_config sees them
    cached,          \* emit._cached
    write_disabled,  \* emit._write_disabled
    warned,          \* emit._warned
    installed,       \* auto._installed: 0 is None, h > 0 the h-th StopHandle
    handles,         \* every StopHandle install_auto_capture has created
    sys,             \* sys.stdout and sys.stderr: 0 the real stream, h > 0 the
                     \* _CapturedStream that handle h put there
    atexit,          \* the flush callbacks registered with atexit, by handle
    dirs,            \* the directories the store holds
    files,           \* the files the store holds: path -> lines
    written,         \* the text the host wrote to each of sys.stdout, sys.stderr
    alive,           \* FALSE once the process has run its exit callbacks
    calls,           \* the calls the host has made
    last,            \* the last call: what ran, what it returned or raised
    hunch_cached,    \* hunch.emit._cached, in a process that uses hunch
    hunch_store,     \* the directories and files of the hunch store
    threads          \* the threads of the host that are inside emit: where
                     \* each is and what _get_cached has given it

vars == <<variant, default_session_id, env, cached, write_disabled, warned,
          installed, handles, sys, atexit,
          dirs, files, written, alive, calls, last, hunch_cached,
          hunch_store, threads>>

-----------------------------------------------------------------------------
(* Bounds of the model. *)

\* Calls the host makes in one process, store failures included.
MaxCalls == 3
\* Calls the host makes in one process to install, stop and write.
MaxLifecycleCalls == 5
\* Atoms the host writes to the captured streams of one installation.
MaxText == 3
\* Times redact_event is applied in a row, each time to the previous result.
MaxRedactions == 2
\* Events the host emits whose service and run id hold path syntax.
MaxEscapeCalls == 2
\* Calls of redact_event whose input the host looks at afterwards.
MaxFrameCalls == 1
\* Calls of find_repo_root in one process.
MaxWalkCalls == 2
\* Installs, writes and stops of a host whose two streams carry distinct text.
MaxLineCalls == 4
\* Threads of the host that call emit at the same time.
MaxThreads == 2
\* Resolutions of configuration and store directory in one process.
MaxConfigCalls == 2
\* Calls of load_config with a working directory and a config path.
MaxPathCalls == 1
\* Calls of a host that writes partial lines and then stops or exits.
MaxFlushCalls == 6
\* Installs, stops and writes of a host under guard and configuration.
MaxGuardCalls == 3
\* Emits of a host whose environment changes between them.
MaxCacheCalls == 2
\* Events the host emits to show which fields are stored.
MaxFieldCalls == 1
\* Events the host emits into a store whose writes may fail.
MaxAppendCalls == 3
\* Events the host emits into one store.
MaxStoreCalls == 2
\* Events the host emits to have them redacted and stored.
MaxRedactCalls == 1
\* Store writes of one call that succeed before the filesystem fails.
MaxAttempts == 2

-----------------------------------------------------------------------------
(* Text. *)

StreamNames == {"stdout", "stderr"}

LineBoundary == {"LF", "CR", "VT"}

Whitespace == LineBoundary \cup {"SP"}

RECURSIVE SplitFrom(_, _, _, _)
SplitFrom(s, i, cur, acc) ==
    IF i > Len(s)
    THEN IF cur = <<>> THEN acc ELSE Append(acc, cur)
    ELSE IF s[i] \in LineBoundary
         THEN LET skip == IF s[i] = "CR" /\ i < Len(s) /\ s[i + 1] = "LF"
                          THEN 2 ELSE 1
              IN  SplitFrom(s, i + skip, <<>>, Append(acc, cur))
         ELSE SplitFrom(s, i + 1, Append(cur, s[i]), acc)

\* str.splitlines(): no line ends, "\r\n" is one boundary, no empty last line.
SplitLines(s) == SplitFrom(s, 1, <<>>, <<>>)

\* not line.strip()
IsBlank(s) == \A i \in 1..Len(s) : s[i] \in Whitespace

\* value.endswith(("\n", "\r"))
EndsWithNewline(s) == Len(s) > 0 /\ s[Len(s)] \in {"LF", "CR"}

Front(s) == SubSeq(s, 1, Len(s) - 1)

-----------------------------------------------------------------------------
(* Values: what a Python object that json.dumps accepts is in the model.   *)
(* Every value is [t |-> its type, v |-> a sequence].                      *)

NoneV == [t |-> "none", v |-> <<>>]
Str(s) == [t |-> "str", v |-> s]
Num(n) == [t |-> "num", v |-> <<n>>]
Bool(b) == [t |-> "bool", v |-> <<b>>]
List(xs) == [t |-> "list", v |-> xs]
Tuple(xs) == [t |-> "tuple", v |-> xs]
\* entries: a sequence of [k |-> text, e |-> value], the keys distinct
Dict(entries) == [t |-> "dict", v |-> entries]

IsNone(x) == x.t = "none"

\* dict.get(key): None when the key is missing
Get(d, key) == IF key \in DOMAIN d THEN d[key] ELSE NoneV

\* str.lower() of one atom
LowerAtom(a) ==
    CASE a \in {"Token", "TOKEN"} -> "token"
      [] a \in {"Secret", "SECRET"} -> "secret"
      [] a = "Name" -> "name"
      [] a \in {"TRACE", "Trace"} -> "trace"
      [] a \in {"DEBUG", "Debug"} -> "debug"
      [] a \in {"INFO", "Info"} -> "info"
      [] a \in {"WARN", "Warn"} -> "warn"
      [] a \in {"ERROR", "Error"} -> "error"
      [] a \in {"FATAL", "Fatal"} -> "fatal"
      [] a = "BEARER" -> "bearer"
      [] a = "Bearer" -> "bearer"
      [] a = "REDACTED" -> "redacted"
      [] OTHER -> a

\* str.lower()
Lower(s) == [i \in 1..Len(s) |-> LowerAtom(s[i])]

RECURSIVE LStrip(_)
LStrip(s) == IF s # <<>> /\ Head(s) \in Whitespace THEN LStrip(Tail(s)) ELSE s

RECURSIVE RStrip(_)
RStrip(s) == IF s # <<>> /\ s[Len(s)] \in Whitespace THEN RStrip(Front(s)) ELSE s

\* str.strip()
Strip(s) == RStrip(LStrip(s))

-----------------------------------------------------------------------------
(* redact.py.  A pattern is a sequence of atoms and matches that sequence, *)
(* letter case ignored (re.IGNORECASE); a pattern holding the atom "(" is  *)
(* one re.compile rejects.                                                 *)

\* _REDACTED_VALUE = "[REDACTED]"
REDACTED_VALUE == <<"[", "REDACTED", "]">>

\* _normalize_key_set
NormalizeKeySet(keys) ==
    {Lower(Strip(keys[i])) : i \in {j \in 1..Len(keys) : Strip(keys[j]) # <<>>}}

\* _compile_pattern: TRUE when re.compile accepts the pattern
CompilePattern(pattern) == \A i \in 1..Len(pattern) : pattern[i] # "("

\* _compile_patterns: the patterns that compile, in order
CompilePatterns(patterns) == SelectSeq(patterns, CompilePattern)

MatchAt(pattern, s, i) ==
    /\ i + Len(pattern) - 1 <= Len(s)
    /\ \A j \in 1..Len(pattern) : LowerAtom(s[i + j - 1]) = LowerAtom(pattern[j])

RECURSIVE SubFrom(_, _, _)
SubFrom(pattern, s, i) ==
    IF i > Len(s)
    THEN IF pattern = <<>> THEN REDACTED_VALUE ELSE <<>>
    ELSE IF pattern = <<>>
         THEN REDACTED_VALUE \o <<s[i]>> \o SubFrom(pattern, s, i + 1)
         ELSE IF MatchAt(pattern, s, i)
              THEN REDACTED_VALUE \o SubFrom(pattern, s, i + Len(pattern))
              ELSE <<s[i]>> \o SubFrom(pattern, s, i + 1)

\* pattern.sub(_REDACTED_VALUE, value)
PatternSub(pattern, s) == SubFrom(pattern, s, 1)

\* _redact_string: the patterns applied in order, each to the previous result
RECURSIVE RedactString(_, _)
RedactString(value, patterns) ==
    IF patterns = <<>>
    THEN value
    ELSE RedactString(PatternSub(Head(patterns), value), Tail(patterns))

\* _redact_value
RECURSIVE RedactValue(_, _, _)
RedactValue(value, key_set, patterns) ==
    CASE value.t = "none" -> value
      [] value.t = "str" -> Str(RedactString(value.v, patterns))
      [] value.t \in {"num", "bool"} -> value
      [] value.t = "list" ->
            List([i \in 1..Len(value.v) |->
                     RedactValue(value.v[i], key_set, patterns)])
      [] value.t = "dict" ->
            Dict([i \in 1..Len(value.v) |->
                     IF Lower(value.v[i].k) \in key_set
                     THEN [k |-> value.v[i].k, e |-> Str(REDACTED_VALUE)]
                     ELSE [k |-> value.v[i].k,
                           e |-> RedactValue(value.v[i].e, key_set, patterns)]])
      [] OTHER -> value

\* dict(event) with event[key] = value
Put(event, key, value) ==
    [f \in DOMAIN event \cup {key} |-> IF f = key THEN value ELSE event[f]]

RedactMessage(config, event) ==
    LET patterns == CompilePatterns(config.redaction.patterns)
        message == Get(event, "message")
    IN  IF message.t = "str"
        THEN Put(event, "message", Str(RedactString(message.v, patterns)))
        ELSE event

RedactField(config, event, field) ==
    LET key_set == NormalizeKeySet(config.redaction.keys)
        patterns == CompilePatterns(config.redaction.patterns)
        value == Get(event, field)
    IN  IF ~IsNone(value)
        THEN Put(event, field, RedactValue(value, key_set, patterns))
        ELSE event

\* redact_event
redact_event(config, event) ==
    IF ~config.redaction.enabled
    THEN event
    ELSE RedactField(config,
             RedactField(config, RedactMessage(config, event), "data"), "tags")

\* redact_event with redacted = event in place of redacted = dict(event)
redact_applied_InPlace(config, event) ==
    [event |-> redact_event(config, event),
     redacted |-> redact_event(config, event)]

\* a call of redact_event: the object event as the call leaves it and the
\* object it returns.  The call assigns into redacted, a copy dict(event)
\* makes, and _redact_value builds a new list or dict at every level; no
\* statement assigns into event or into a value it holds
redact_applied(config, event) ==
    [event |-> event, redacted |-> redact_event(config, event)]

-----------------------------------------------------------------------------
(* config.py.  env holds the environment variables the SDK reads ("" is an *)
(* unset variable) and the config file load_config finds:                  *)
(*   [kind |-> "missing"], [kind |-> "malformed"], or                      *)
(*   [kind |-> "object", json |-> the parsed object].                      *)

DEFAULT_CONFIG ==
    [version |-> 1,
     enabled |-> TRUE,
     default_service |-> <<"guck">>,
     sdk |-> [enabled |-> TRUE, capture_stdout |-> TRUE, capture_stderr |-> TRUE],
     redaction |->
        [enabled |-> TRUE,
         keys |-> << <<"authorization">>, <<"api_key">>, <<"token">>,
                     <<"secret">>, <<"password">> >>,
         patterns |-> << <<"sk-secret">>, <<"Bearer", "SP", "credential">> >>],
     mcp |-> [max_results |-> 200, default_lookback_ms |-> 300000,
              max_output_chars |-> 0, max_message_chars |-> 0]]

\* DEFAULT_STORE_DIR = ~/.guck/logs
DEFAULT_STORE_DIR == <<<<"~">>, <<".guck">>, <<"logs">>>>

\* {**base, **override}
Overlay(base, override) ==
    [k \in DOMAIN base \cup DOMAIN override |->
        IF k \in DOMAIN override THEN override[k] ELSE base[k]]

Without(d, key) == [k \in DOMAIN d \ {key} |-> d[k]]

\* a JSON value of the config file that is no object: null, a number, a
\* string or an array, by its truth value
Scalar(truthy) == [scalar |-> truthy]

IsScalar(value) == "scalar" \in DOMAIN value

\* override.get(section) or {}
SectionOf(override, section) ==
    IF section \in DOMAIN override
    THEN IF IsScalar(override[section]) /\ ~override[section].scalar
         THEN <<>>
         ELSE override[section]
    ELSE <<>>

\* {**base[section], **(override.get(section) or {})} and dict(...) raise a
\* TypeError (a ValueError for some strings) when the value is no mapping
merge_raises(override) ==
    \E section \in {"sdk", "redaction", "mcp"} :
       IsScalar(SectionOf(Without(override, "store_dir"), section))

\* _merge_config
merge_config(base, override) ==
    LET o == Without(override, "store_dir")
        mcp_override == Without(SectionOf(o, "mcp"), "http")
    IN  Overlay(Overlay(base, o),
                [sdk |-> Overlay(base.sdk, SectionOf(o, "sdk")),
                 redaction |-> Overlay(base.redaction, SectionOf(o, "redaction")),
                 mcp |-> Overlay(base.mcp, mcp_override)])

\* value.strip() of the value of an environment variable
StripValue(value) ==
    CASE value \in {" true ", "true "} -> "true"
      [] value = " false " -> "false"
      [] value = " TRUE " -> "TRUE"
      [] value = " FALSE " -> "FALSE"
      [] value = " " -> ""
      [] OTHER -> value

\* value.lower()
LowerValue(value) ==
    CASE value \in {"TRUE", "True"} -> "true"
      [] value \in {"FALSE", "False"} -> "false"
      [] value = " TRUE " -> " true "
      [] value = " FALSE " -> " false "
      [] value = "YES" -> "yes"
      [] OTHER -> value

\* _parse_bool without the strip
parse_bool_NoStrip(value) ==
    CASE LowerValue(value) = "true" -> "true"
      [] LowerValue(value) = "false" -> "false"
      [] OTHER -> "none"

\* _parse_bool: "true", "false", or "none"; an unset variable ("") is None
parse_bool(value) ==
    CASE value = "" -> "none"
      [] LowerValue(StripValue(value)) = "true" -> "true"
      [] LowerValue(StripValue(value)) = "false" -> "false"
      [] OTHER -> "none"

\* _read_json_file that hands on whatever is written in the file
read_json_file_Lenient(file) ==
    IF "json" \in DOMAIN file THEN file.json ELSE <<>>

\* _read_json_file: the parsed object, or <<>> for None
read_json_file(file) == IF file.kind = "object" THEN file.json ELSE <<>>

\* load_config()["config"]
load_config(e) ==
    LET config_json == read_json_file(e.file)
        c0 == IF DOMAIN config_json # {}
              THEN merge_config(DEFAULT_CONFIG, config_json)
              ELSE DEFAULT_CONFIG
        env_enabled == parse_bool(e.GUCK_ENABLED)
        c1 == IF env_enabled # "none"
              THEN Overlay(c0, [enabled |-> env_enabled = "true"])
              ELSE c0
    IN  IF e.GUCK_SERVICE # <<>>
        THEN Overlay(c1, [default_service |-> e.GUCK_SERVICE])
        ELSE c1

\* load_config raises what _merge_config raises
load_config_raises(e) ==
    /\ DOMAIN read_json_file(e.file) # {}
    /\ merge_raises(read_json_file(e.file))

\* resolve_store_dir that honours a store_dir key of the config file
resolve_store_dir_FromFile(e) ==
    IF e.GUCK_DIR # <<>> THEN e.GUCK_DIR
    ELSE IF "store_dir" \in DOMAIN read_json_file(e.file)
         THEN read_json_file(e.file).store_dir
         ELSE DEFAULT_STORE_DIR

\* resolve_store_dir
resolve_store_dir(e) == IF e.GUCK_DIR # <<>> THEN e.GUCK_DIR ELSE DEFAULT_STORE_DIR

-----------------------------------------------------------------------------
(* store.py.  A path is a sequence of components, each a text.  The        *)
(* filesystem answers each append_event with an outcome                    *)
(* [errno |-> "ok" or the errno of the OSError, stage |-> where it fails]. *)

\* mutant: ENOSPC taken for a permission error
PermissionErrnos_WithENOSPC == {"EACCES", "EPERM", "EROFS", "ENOSPC"}

\* exc.errno in {errno.EACCES, errno.EPERM, errno.EROFS}
PermissionErrnos == {"EACCES", "EPERM", "EROFS"}

Errnos == PermissionErrnos \cup {"ENOSPC"}

OkOutcome == [errno |-> "ok", stage |-> "open"]

\* mkdir fails, or open fails after mkdir made the directories
Outcomes ==
    {OkOutcome,
     [errno |-> "EACCES", stage |-> "mkdir"],
     [errno |-> "EACCES", stage |-> "open"],
     [errno |-> "EPERM", stage |-> "open"],
     [errno |-> "EROFS", stage |-> "mkdir"],
     [errno |-> "ENOSPC", stage |-> "open"]}

\* _now_iso at the time of the call, and the UTC date of that instant
NowIso == <<"2026-11-02", "T", "10:00:00.000", "Z">>
Today == <<"2026-11-02">>

(* A timestamp is a text of atoms: a date, then perhaps "T" and a time,    *)
(* then perhaps "Z" or an offset.  The dates, times and offsets below are  *)
(* the ones datetime.fromisoformat reads; any other atom makes it raise    *)
(* ValueError.                                                             *)

\* date.toordinal() of the dates
DateOrdinal ==
    [d \in {"2023-12-31", "2024-01-01", "2024-01-02", "2026-11-02",
            "9999-12-31"} |->
        CASE d = "2023-12-31" -> 738885
          [] d = "2024-01-01" -> 738886
          [] d = "2024-01-02" -> 738887
          [] d = "2026-11-02" -> 739922
          [] d = "9999-12-31" -> 3652059]

\* the minute of the day of the times
MinuteOf ==
    [t \in {"00:30:00", "10:00:00", "10:00:00.000", "23:30:00"} |->
        CASE t = "00:30:00" -> 30
          [] t \in {"10:00:00", "10:00:00.000"} -> 600
          [] t = "23:30:00" -> 1410]

\* utcoffset() in minutes of the offsets
OffsetOf ==
    [z \in {"+00:00", "-02:00", "+05:30"} |->
        CASE z = "+00:00" -> 0
          [] z = "-02:00" -> 0 - 120
          [] z = "+05:30" -> 330]

\* datetime.fromisoformat(candidate) returns
IsIsoFormat(candidate) ==
    /\ Len(candidate) \in {1, 3, 4}
    /\ candidate[1] \in DOMAIN DateOrdinal
    /\ Len(candidate) >= 3 => candidate[2] = "T" /\ candidate[3] \in DOMAIN MinuteOf
    /\ Len(candidate) = 4 => candidate[4] \in DOMAIN OffsetOf

\* the ordinal of the UTC date of the instant: the date, moved by the whole
\* days the offset takes the time of day back or forth; a timestamp without
\* offset is taken as UTC
UtcDay(candidate) ==
    DateOrdinal[candidate[1]]
    + (((IF Len(candidate) >= 3 THEN MinuteOf[candidate[3]] ELSE 0)
        - (IF Len(candidate) = 4 THEN OffsetOf[candidate[4]] ELSE 0))
       \div 1440)

\* datetime.fromisoformat(candidate).astimezone(timezone.utc): the way
\* _parse_timestamp ends and the ordinal of the UTC date it returns
AsUtc(candidate, day) ==
    IF ~IsIsoFormat(candidate)
    THEN [end |-> "now", day |-> DateOrdinal[Today[1]]]
    ELSE IF day < 1 \/ day > 3652059
    THEN [end |-> "OverflowError", day |-> 0]
    ELSE [end |-> "parsed", day |-> day]

\* candidate[:-1] + "+00:00" when the candidate ends with "Z"
ZuluAsOffset(stripped) ==
    IF stripped # <<>> /\ stripped[Len(stripped)] = "Z"
    THEN Append(Front(stripped), "+00:00")
    ELSE stripped

ParseCandidate(candidate) ==
    AsUtc(candidate,
          IF IsIsoFormat(candidate) THEN UtcDay(candidate) ELSE 0)

\* _parse_timestamp: it ends "parsed", "now" (the argument is no string or
\* fromisoformat raised ValueError) or "OverflowError" (astimezone leaves
\* the range of datetime, days 1 to 3652059)
parse_timestamp(value) ==
    IF value.t # "str"
    THEN [end |-> "now", day |-> DateOrdinal[Today[1]]]
    ELSE ParseCandidate(ZuluAsOffset(Strip(value.v)))

\* strftime("%Y-%m-%d") of the date with this ordinal
FormatDate(day) == <<CHOOSE d \in DOMAIN DateOrdinal : DateOrdinal[d] = day>>

\* _format_date_segment(_parse_timestamp(value)), when that returns
date_segment(value) == FormatDate(parse_timestamp(value).day)

\* the components of a path text: "/" separates them, empty and "."
\* components are dropped
RECURSIVE PartsFrom(_, _, _, _)
PartsFrom(s, i, cur, acc) ==
    LET closed == IF cur \in {<<>>, <<".">>} THEN acc ELSE Append(acc, cur)
    IN  IF i > Len(s)
        THEN closed
        ELSE IF s[i] = "/"
             THEN PartsFrom(s, i + 1, <<>>, closed)
             ELSE PartsFrom(s, i + 1, Append(cur, s[i]), acc)

PathParts(s) == PartsFrom(s, 1, <<>>, <<>>)

\* Path(base) / name: an absolute name replaces the base
PathJoin(base, name) ==
    IF name # <<>> /\ name[1] = "/"
    THEN <<<<"/">>>> \o PathParts(name)
    ELSE base \o PathParts(name)

\* json.dumps writes a tuple as a JSON array
RECURSIVE json_dumps(_)
json_dumps(value) ==
    CASE value.t \in {"list", "tuple"} ->
            List([i \in 1..Len(value.v) |-> json_dumps(value.v[i])])
      [] value.t = "dict" ->
            Dict([i \in 1..Len(value.v) |->
                     [k |-> value.v[i].k, e |-> json_dumps(value.v[i].e)]])
      [] OTHER -> value

\* the line written for an event
EventLine(event) == [f \in DOMAIN event |-> json_dumps(event[f])]

\* file_dir = store_root / event["service"] / date_segment
FileDir(store_dir, event) ==
    Append(PathJoin(store_dir, event["service"].v),
           date_segment(Get(event, "ts")))

\* file_path = file_dir / f"{event['run_id']}.jsonl"
FilePath(store_dir, event) ==
    PathJoin(FileDir(store_dir, event), event["run_id"].v \o <<".jsonl">>)

\* the directories mkdir(parents=True) makes for file_dir under a store
\* directory of this depth
Above(file_dir, depth) ==
    {SubSeq(file_dir, 1, n) : n \in depth..Len(file_dir)} \cup {file_dir}

\* the directory the file system takes a path to: ".." is the parent of
\* what precedes it, and the parent of the root is the root
Below(dir, name) ==
    IF name # <<"..">> THEN Append(dir, name)
    ELSE IF dir = <<>> \/ dir[Len(dir)] = <<"..">> THEN Append(dir, name)
    ELSE IF dir = << <<"/">> >> THEN dir
    ELSE Front(dir)

RECURSIVE Normal(_)
Normal(path) ==
    IF path = <<>>
    THEN <<>>
    ELSE Below(Normal(Front(path)), path[Len(path)])

\* the path is a directory once the directories made exist: one of them, a
\* directory above one of them, or the root
DirExists(path, made) ==
    \/ Normal(path) = << <<"/">> >>
    \/ \E q \in made :
          \E n \in 1..Len(q) : Normal(SubSeq(q, 1, n)) = Normal(path)

\* mutant: the file is opened for writing, not for appending
append_made_Rewrites(d, f, above, file_path, event, outcome) ==
    IF outcome.errno # "ok"
    THEN [dirs |-> d, files |-> f, err |-> outcome.errno]
    ELSE [dirs |-> d \cup above,
          files |-> [q \in DOMAIN f \cup {file_path} |->
                        IF q = file_path THEN <<EventLine(event)>> ELSE f[q]],
          err |-> "ok"]

\* append_event from mkdir on
append_made(d, f, above, file_path, event, outcome) ==
    IF outcome.errno # "ok" /\ outcome.stage = "mkdir"
    THEN [dirs |-> d, files |-> f, err |-> outcome.errno]
    ELSE IF above \cap DOMAIN f # {}
    THEN [dirs |-> d, files |-> f, err |-> "EEXIST"]
    ELSE IF outcome.errno # "ok"
    THEN [dirs |-> d \cup above, files |-> f, err |-> outcome.errno]
    ELSE IF ~DirExists(Front(file_path), d \cup above)
    THEN [dirs |-> d \cup above, files |-> f, err |-> "ENOENT"]
    ELSE IF DirExists(file_path, d \cup above)
    THEN [dirs |-> d \cup above, files |-> f, err |-> "EISDIR"]
    ELSE [dirs |-> d \cup above,
          files |-> [q \in DOMAIN f \cup {file_path} |->
                        IF q = file_path
                        THEN Append(IF q \in DOMAIN f THEN f[q] ELSE <<>>,
                                    EventLine(event))
                        ELSE f[q]],
          err |-> "ok"]

\* append_event once file_dir is computed
append_in(d, f, file_dir, depth, event, outcome) ==
    append_made(d, f, Above(file_dir, depth),
                PathJoin(file_dir, event["run_id"].v \o <<".jsonl">>),
                event, outcome)

\* append_event: the store after the call, and the error raised ("ok":
\* none).  mkdir(parents=True, exist_ok=True) makes file_dir and the missing
\* directories above it and raises when one of them is a file; open raises
\* when the directory of file_path is missing or file_path is a directory.
append_event(d, f, store_dir, event, outcome) ==
    IF parse_timestamp(Get(event, "ts")).end = "OverflowError"
    THEN [dirs |-> d, files |-> f, err |-> "OverflowError"]
    ELSE append_in(d, f, FileDir(store_dir, event), Len(store_dir), event,
                   outcome)

-----------------------------------------------------------------------------
(* emit.py: building the event. *)

\* _DEFAULT_RUN_ID, fixed when the module is imported
DEFAULT_RUN_ID == Str(<<"run-uuid4">>)

\* _DEFAULT_SESSION_ID
DEFAULT_SESSION_ID == default_session_id

Levels == {"trace", "debug", "info", "warn", "error", "fatal"}

\* bool(value)
Truthy(value) ==
    CASE value.t = "none" -> FALSE
      [] value.t = "num" -> value.v # <<0>>
      [] value.t = "bool" -> value.v = <<TRUE>>
      [] OTHER -> value.v # <<>>

\* _normalize_level raises AttributeError: level.lower() on a value that is
\* truthy and not a str
normalize_level_raises(level) == Truthy(level) /\ level.t # "str"

\* _normalize_level
normalize_level(level) ==
    IF ~Truthy(level) THEN <<"info">>
    ELSE IF Len(level.v) = 1 /\ LowerAtom(level.v[1]) \in Levels
         THEN Lower(level.v)
         ELSE <<"info">>

\* _coalesce
coalesce(input_event, key, default) ==
    IF key \in DOMAIN input_event /\ ~IsNone(input_event[key])
    THEN input_event[key]
    ELSE default

OptionalFields == {"message", "data", "tags", "trace_id", "span_id"}

\* mutant: an optional field is stored whenever the input has the key
to_event_KeepsNulls(input_event, defaults) ==
    [f \in {"id", "ts", "level", "type", "service", "run_id", "source"}
           \cup (DOMAIN input_event \cap (OptionalFields \cup {"session_id"}))
       |->
        CASE f = "id" -> coalesce(input_event, "id", Str(<<"uuid4">>))
          [] f = "ts" -> coalesce(input_event, "ts", Str(NowIso))
          [] f = "level" -> Str(normalize_level(Get(input_event, "level")))
          [] f = "type" -> coalesce(input_event, "type", Str(<<"log">>))
          [] f = "service" ->
                coalesce(input_event, "service", Str(defaults.service))
          [] f = "run_id" -> coalesce(input_event, "run_id", DEFAULT_RUN_ID)
          [] f = "source" ->
                coalesce(input_event, "source",
                         Dict(<<[k |-> <<"kind">>, e |-> Str(<<"sdk">>)]>>))
          [] OTHER -> input_event[f]]

\* _to_event
to_event(input_event, defaults) ==
    LET session_id == coalesce(input_event, "session_id", DEFAULT_SESSION_ID)
        present == {f \in OptionalFields :
                       f \in DOMAIN input_event /\ ~IsNone(input_event[f])}
        fields == {"id", "ts", "level", "type", "service", "run_id", "source"}
                  \cup (IF IsNone(session_id) THEN {} ELSE {"session_id"})
                  \cup present
    IN  [f \in fields |->
            CASE f = "id" -> coalesce(input_event, "id", Str(<<"uuid4">>))
              [] f = "ts" -> coalesce(input_event, "ts", Str(NowIso))
              [] f = "level" -> Str(normalize_level(Get(input_event, "level")))
              [] f = "type" -> coalesce(input_event, "type", Str(<<"log">>))
              [] f = "service" ->
                    coalesce(input_event, "service", Str(defaults.service))
              [] f = "run_id" -> coalesce(input_event, "run_id", DEFAULT_RUN_ID)
              [] f = "source" ->
                    coalesce(input_event, "source",
                             Dict(<<[k |-> <<"kind">>, e |-> Str(<<"sdk">>)]>>))
              [] f = "session_id" -> session_id
              [] OTHER -> input_event[f]]

-----------------------------------------------------------------------------
(* The process.  A call of the host runs on a record st of the process     *)
(* state with the bookkeeping of the call:                                 *)
(*   oracle  the outcomes the filesystem gives the call's store writes:    *)
(*           [good |-> n, then |-> o], the first n succeed and every later *)
(*           one ends as o                                                 *)
(*   trace   what the call did, in order: "emit" (emit entered), "append"  *)
(*           (append_event called), "fwd" (a real stream written)          *)
(*   raised  the exception on its way to the host, "none" when there is    *)
(*           none                                                          *)
(*   ret     the value returned                                            *)

NoCache == [set |-> FALSE]

\* the message emit writes to sys.stderr when it disables writing
DIAGNOSTIC ==
    <<"[guck]", "SP", "write", "SP", "disabled", "SP", "(permission", "SP",
      "error);", "SP", "set", "SP", "GUCK_STRICT_WRITE_ERRORS=1", "SP", "to",
      "SP", "fail", "SP", "hard", "LF">>

Log(st, op, arg) == [st EXCEPT !.trace = Append(@, [op |-> op, arg |-> arg])]

\* mutant: the configuration is resolved on every call
get_cached_Reloads(st) ==
    [st EXCEPT !.cached = [set |-> TRUE,
                           store_dir |-> resolve_store_dir(st.env),
                           config |-> load_config(st.env)]]

\* _get_cached
get_cached(st) ==
    IF st.cached.set
    THEN st
    ELSE [st EXCEPT !.cached = [set |-> TRUE,
                                store_dir |-> resolve_store_dir(st.env),
                                config |-> load_config(st.env)]]

\* the level a _CapturedStream of this kind emits with
LevelOf(kind) == IF kind = "stdout" THEN "info" ELSE "error"

CaptureFlag(sdk, kind) ==
    IF kind = "stdout" THEN sdk.capture_stdout ELSE sdk.capture_stderr

\* the input event _flush_line hands to emit
LineEvent(kind, level, line) ==
    [type |-> Str(<<kind>>), level |-> Str(<<level>>), message |-> Str(line),
     source |-> Dict(<<[k |-> <<"kind">>, e |-> Str(<<kind>>)]>>)]

RECURSIVE emit(_, _)
RECURSIVE stream_write(_, _, _, _)
RECURSIVE flush_lines(_, _, _, _)

\* mutant: the except clause latches on every OSError
emit_except_SwallowsAll(st, errno) ==
    IF st.env.GUCK_STRICT_WRITE_ERRORS = "1"
    THEN [st EXCEPT !.raised = errno]
    ELSE LET s1 == [st EXCEPT !.write_disabled = TRUE]
         IN  IF ~s1.warned
             THEN stream_write([s1 EXCEPT !.warned = TRUE], "stderr",
                               s1.sys["stderr"], DIAGNOSTIC)
             ELSE s1

\* mutant: the except clause tests the errno before the strict variable
emit_except_LatchBeforeStrict(st, errno) ==
    IF errno \in PermissionErrnos
    THEN LET s1 == [st EXCEPT !.write_disabled = TRUE]
         IN  IF ~s1.warned
             THEN stream_write([s1 EXCEPT !.warned = TRUE], "stderr",
                               s1.sys["stderr"], DIAGNOSTIC)
             ELSE s1
    ELSE [st EXCEPT !.raised = errno]

\* the except clause of emit setting the latch after it has written the
\* diagnostic
emit_except_WarnsBeforeLatch(st, errno) ==
    IF st.env.GUCK_STRICT_WRITE_ERRORS = "1"
    THEN [st EXCEPT !.raised = errno]
    ELSE IF errno \in PermissionErrnos
    THEN IF ~st.warned
         THEN [stream_write([st EXCEPT !.warned = TRUE], "stderr",
                            st.sys["stderr"], DIAGNOSTIC)
                  EXCEPT !.write_disabled = TRUE]
         ELSE [st EXCEPT !.write_disabled = TRUE]
    ELSE [st EXCEPT !.raised = errno]

\* the except clause of emit writing its diagnostic twice
emit_except_WarnsTwice(st, errno) ==
    IF st.env.GUCK_STRICT_WRITE_ERRORS = "1"
    THEN [st EXCEPT !.raised = errno]
    ELSE IF errno \in PermissionErrnos
    THEN stream_write(
            stream_write([st EXCEPT !.write_disabled = TRUE, !.warned = TRUE],
                         "stderr", st.sys["stderr"], DIAGNOSTIC),
            "stderr", st.sys["stderr"], DIAGNOSTIC)
    ELSE [st EXCEPT !.raised = errno]

\* the except clause of emit, on an OSError with this errno
emit_except(st, errno) ==
    IF st.env.GUCK_STRICT_WRITE_ERRORS = "1"
    THEN [st EXCEPT !.raised = errno]
    ELSE IF errno \in PermissionErrnos
    THEN LET s1 == [st EXCEPT !.write_disabled = TRUE]
         IN  IF ~s1.warned
             THEN stream_write([s1 EXCEPT !.warned = TRUE], "stderr",
                               s1.sys["stderr"], DIAGNOSTIC)
             ELSE s1
    ELSE [st EXCEPT !.raised = errno]

\* the outcome of the next store write of the call
NextOutcome(st) == IF st.oracle.good > 0 THEN OkOutcome ELSE st.oracle.then

\* emit once append_event has returned or raised
emit_appended(st, r, outcome) ==
    IF r.err = "ok"
    THEN [Log(st, "append", outcome) EXCEPT
             !.oracle.good = IF @ > 0 THEN @ - 1 ELSE 0,
             !.dirs = r.dirs,
             !.files = r.files]
    ELSE IF r.err = "OverflowError"
    THEN [Log(st, "append", outcome) EXCEPT
             !.oracle.good = IF @ > 0 THEN @ - 1 ELSE 0,
             !.raised = r.err]
    ELSE emit_except([Log(st, "append", outcome) EXCEPT
                         !.oracle.good = IF @ > 0 THEN @ - 1 ELSE 0,
                         !.dirs = r.dirs,
                         !.files = r.files],
                     r.err)

\* emit, from the enabled check on
emit_enabled(st, input_event) ==
    IF normalize_level_raises(Get(input_event, "level"))
    THEN [st EXCEPT !.raised = "AttributeError"]
    ELSE emit_appended(
            st,
            append_event(
               st.dirs, st.files, st.cached.store_dir,
               redact_event(st.cached.config,
                            to_event(input_event,
                                     [service |-> st.cached.config.default_service])),
               NextOutcome(st)),
            NextOutcome(st))

\* mutant: emit without the test of _write_disabled
emit_NoLatchTest(st, input_event) ==
    LET s1 == get_cached(Log(st, "emit", input_event))
    IN  IF ~s1.cached.config.enabled
        THEN s1
        ELSE emit_enabled(s1, input_event)

\* mutant: emit without the test of config["enabled"]
emit_NoEnabledTest(st, input_event) ==
    LET s0 == Log(st, "emit", input_event)
    IN  IF s0.write_disabled
        THEN s0
        ELSE emit_enabled(get_cached(s0), input_event)

\* emit
emit(st, input_event) ==
    LET s0 == Log(st, "emit", input_event)
    IN  IF s0.write_disabled
        THEN s0
        ELSE LET s1 == get_cached(s0)
             IN  IF ~s1.cached.config.enabled
                 THEN s1
                 ELSE emit_enabled(s1, input_event)

\* _flush_line
flush_line(st, kind, level, line) ==
    IF IsBlank(line) THEN st ELSE emit(st, LineEvent(kind, level, line))

\* for line in lines: _flush_line(...)
flush_lines(st, kind, level, lines) ==
    IF lines = <<>> \/ st.raised # "none"
    THEN st
    ELSE flush_lines(flush_line(st, kind, level, Head(lines)), kind, level,
                     Tail(lines))

\* the lines _CapturedStream.write emits for this buffer value
CompleteLines(value) ==
    LET lines == SplitLines(value)
    IN  IF EndsWithNewline(value) \/ lines = <<>> THEN lines ELSE Front(lines)

\* the part of the buffer value _CapturedStream.write keeps
Pending(value) ==
    LET lines == SplitLines(value)
    IN  IF EndsWithNewline(value) \/ lines = <<>>
        THEN <<>>
        ELSE lines[Len(lines)]

\* _CapturedStream.write returns the result of the original's write
captured_return(s3, result) ==
    IF s3.raised # "none" THEN s3 ELSE [s3 EXCEPT !.ret = result]

\* _CapturedStream.write once the original's write has returned: the buffer
\* takes the data and the complete lines are emitted
captured_lines(s1, kind, h, data) ==
    IF s1.raised # "none"
    THEN s1
    ELSE captured_return(
            flush_lines([s1 EXCEPT !.handles[h].buffers[kind] =
                                       Pending(@ \o data)],
                        kind, LevelOf(kind),
                        CompleteLines(s1.handles[h].buffers[kind] \o data)),
            s1.ret)

\* mutant: the data is forwarded once the lines are emitted
captured_forward_After(s2, kind, h, data) ==
    IF s2.raised # "none"
    THEN s2
    ELSE stream_write(s2, kind, s2.handles[h].original[kind], data)

\* mutant: _CapturedStream.write emits the lines before it forwards the data
captured_write_EmitFirst(st, kind, h, data) ==
    captured_forward_After(
        flush_lines([st EXCEPT !.handles[h].buffers[kind] = Pending(@ \o data)],
                    kind, LevelOf(kind),
                    CompleteLines(st.handles[h].buffers[kind] \o data)),
        kind, h, data)

\* _CapturedStream.write of the wrapper handle h made for stream kind
captured_write(st, kind, h, data) ==
    captured_lines(stream_write(st, kind, st.handles[h].original[kind], data),
                   kind, h, data)

\* stream.write(data) on the object target: 0 is the real stream, which
\* returns the number of characters written
stream_write(st, kind, target, data) ==
    IF target = 0
    THEN [Log(st, "fwd", [stream |-> kind, text |-> data]) EXCEPT
             !.ret = Len(data)]
    ELSE captured_write(st, kind, target, data)

-----------------------------------------------------------------------------
(* auto.py: install_auto_capture and the closures of a StopHandle.         *)
(* A handle is [noop, sdk, original, buffers]: whether its stop is         *)
(* lambda: None, and the sdk, original_stdout/original_stderr and buffers  *)
(* its flush and stop closures hold.                                       *)

EmptyBuffers == [stdout |-> <<>>, stderr |-> <<>>]

NoopHandle ==
    [noop |-> TRUE,
     sdk |-> [enabled |-> FALSE, capture_stdout |-> FALSE,
              capture_stderr |-> FALSE],
     original |-> [stdout |-> 0, stderr |-> 0],
     buffers |-> EmptyBuffers]

\* mutant: _should_capture without the test of GUCK_WRAPPED
should_capture_IgnoresGuard(e) ==
    LET config == load_config(e)
    IN  /\ config.enabled
        /\ config.sdk.enabled
        /\ (config.sdk.capture_stdout \/ config.sdk.capture_stderr)

\* _should_capture
should_capture(e) ==
    LET config == load_config(e)
    IN  /\ e.GUCK_WRAPPED # "1"
        /\ config.enabled
        /\ config.sdk.enabled
        /\ (config.sdk.capture_stdout \/ config.sdk.capture_stderr)

\* buffers[kind] = "" once _flush_line has returned
buffer_cleared(s1, h, kind) ==
    IF s1.raised # "none"
    THEN s1
    ELSE [s1 EXCEPT !.handles[h].buffers[kind] = <<>>]

\* flush that emits the buffer of either stream at level info
flush_stream_AlwaysInfo(st, h, kind) ==
    IF CaptureFlag(st.handles[h].sdk, kind)
       /\ ~IsBlank(st.handles[h].buffers[kind])
    THEN buffer_cleared(flush_line(st, kind, "info",
                                   st.handles[h].buffers[kind]), h, kind)
    ELSE st

\* one branch of flush: the buffer of one stream
flush_stream(st, h, kind) ==
    IF CaptureFlag(st.handles[h].sdk, kind)
       /\ ~IsBlank(st.handles[h].buffers[kind])
    THEN buffer_cleared(flush_line(st, kind, LevelOf(kind),
                                   st.handles[h].buffers[kind]), h, kind)
    ELSE st

\* the second branch of flush, reached when the first did not raise
flush_stderr(s1, h) ==
    IF s1.raised # "none" THEN s1 ELSE flush_stream(s1, h, "stderr")

\* the flush closure of handle h
flush(st, h) == flush_stderr(flush_stream(st, h, "stdout"), h)

\* atexit.unregister(flush)
Unregister(registered, h) == SelectSeq(registered, LAMBDA x : x # h)

\* what h.original holds for the streams h wrapped, what sys holds for the
\* others
Restored(streams, handle) ==
    [stdout |-> IF handle.sdk.capture_stdout
                THEN handle.original["stdout"] ELSE streams["stdout"],
     stderr |-> IF handle.sdk.capture_stderr
                THEN handle.original["stderr"] ELSE streams["stderr"]]

\* mutant: stop leaves _installed as it is
stop_restore_KeepsInstalled(s1, h) ==
    IF s1.raised # "none"
    THEN s1
    ELSE [s1 EXCEPT !.sys = Restored(@, s1.handles[h]),
                    !.atexit = Unregister(@, h)]

\* stop once flush() has returned: the streams are put back, flush is
\* unregistered and _installed is cleared
stop_restore(s1, h) ==
    IF s1.raised # "none"
    THEN s1
    ELSE [s1 EXCEPT !.sys = Restored(@, s1.handles[h]),
                    !.atexit = Unregister(@, h),
                    !.installed = 0]

\* the stop closure of handle h
stop(st, h) ==
    IF st.handles[h].noop THEN st ELSE stop_restore(flush(st, h), h)

\* install_auto_capture
install_auto_capture(st) ==
    LET h == Len(st.handles) + 1
        sdk == load_config(st.env).sdk
        capturing ==
            [noop |-> FALSE, sdk |-> sdk, original |-> st.sys,
             buffers |-> EmptyBuffers]
    IN  IF st.installed # 0
        THEN [st EXCEPT !.ret = st.installed]
        ELSE IF ~should_capture(st.env)
        THEN [st EXCEPT !.handles = Append(@, NoopHandle),
                        !.installed = h,
                        !.ret = h]
        ELSE [st EXCEPT
                 !.handles = Append(@, capturing),
                 !.sys = [stdout |-> IF sdk.capture_stdout THEN h ELSE @["stdout"],
                          stderr |-> IF sdk.capture_stderr THEN h ELSE @["stderr"]],
                 !.atexit = Append(@, h),
                 !.installed = h,
                 !.ret = h]

\* what the interpreter prints to sys.stderr for an exception in an exit
\* callback
TRACEBACK == <<"Exception", "SP", "ignored", "SP", "in", "SP", "atexit",
               "SP", "callback", "LF">>

\* the interpreter runs the registered callbacks, last registered first; an
\* exception in one is printed to sys.stderr and dropped, as is one raised
\* while printing
exit_callback_done(s1) ==
    IF s1.raised = "none"
    THEN s1
    ELSE [stream_write([s1 EXCEPT !.raised = "none"], "stderr",
                       s1.sys["stderr"], TRACEBACK)
             EXCEPT !.raised = "none"]

RECURSIVE run_exitfuncs(_, _)
run_exitfuncs(st, callbacks) ==
    IF callbacks = <<>>
    THEN st
    ELSE run_exitfuncs(
            exit_callback_done(flush(st, callbacks[Len(callbacks)])),
            Front(callbacks))

-----------------------------------------------------------------------------
(* hunch: config.py and emit.py.  The hunch process reads the variables    *)
(* HUNCH_ENABLED, HUNCH_SERVICE and HUNCH_DIR where guck reads GUCK_...;   *)
(* env holds them under the GUCK_ names.  hunch/redact.py and              *)
(* hunch/store.py are modelled from sections 4.2 and 4.4 of the            *)
(* specification.                                                          *)

HUNCH_DEFAULT_CONFIG ==
    [version |-> 1,
     enabled |-> TRUE,
     store_dir |-> <<<<"logs">>, <<"hunch">>>>,
     default_service |-> <<"hunch">>,
     redaction |-> DEFAULT_CONFIG.redaction,
     mcp |-> [max_results |-> 200, default_lookback_ms |-> 300000]]

\* hunch _merge_config
hunch_merge_config(base, override) ==
    Overlay(Overlay(base, override),
            [redaction |-> Overlay(base.redaction, SectionOf(override, "redaction")),
             mcp |-> Overlay(base.mcp, SectionOf(override, "mcp"))])

\* hunch _merge_config raises a TypeError when a section is no mapping
hunch_merge_raises(override) ==
    \E section \in {"redaction", "mcp"} : IsScalar(SectionOf(override, section))

\* hunch load_config()["config"]
hunch_load_config(e) ==
    LET config_json == read_json_file(e.file)
        c0 == IF DOMAIN config_json # {}
              THEN hunch_merge_config(HUNCH_DEFAULT_CONFIG, config_json)
              ELSE HUNCH_DEFAULT_CONFIG
        env_enabled == parse_bool(e.GUCK_ENABLED)
        c1 == IF env_enabled # "none"
              THEN Overlay(c0, [enabled |-> env_enabled = "true"])
              ELSE c0
        c2 == IF e.GUCK_DIR # <<>>
              THEN Overlay(c1, [store_dir |-> e.GUCK_DIR])
              ELSE c1
    IN  IF e.GUCK_SERVICE # <<>>
        THEN Overlay(c2, [default_service |-> e.GUCK_SERVICE])
        ELSE c2

hunch_load_config_raises(e) ==
    /\ DOMAIN read_json_file(e.file) # {}
    /\ hunch_merge_raises(read_json_file(e.file))

\* the root directory load_config finds
ROOT_DIR == <<<<"/">>, <<"repo">>>>

\* hunch resolve_store_dir: a path is absolute when it starts at "/"
hunch_resolve_store_dir(config, root_dir) ==
    IF config.store_dir # <<>> /\ Head(config.store_dir) = <<"/">>
    THEN config.store_dir
    ELSE root_dir \o config.store_dir

\* hunch _get_cached
hunch_get_cached(c, e) ==
    IF c.set
    THEN c
    ELSE LET config == hunch_load_config(e)
         IN  [set |-> TRUE,
              store_dir |-> hunch_resolve_store_dir(config, ROOT_DIR),
              config |-> config]

\* hunch/redact.py redact_event
hunch_redact_event(config, event) == redact_event(config, event)

\* hunch/store.py append_event
hunch_append_event(d, f, store_dir, event, outcome) ==
    append_event(d, f, store_dir, event, outcome)

\* hunch emit: [cached, store, raised]
hunch_emit(c, store, e, input_event, outcome) ==
    LET c1 == hunch_get_cached(c, e)
        event == to_event(input_event, [service |-> c1.config.default_service])
        redacted == hunch_redact_event(c1.config, event)
        r == hunch_append_event(store.dirs, store.files, c1.store_dir,
                                redacted, outcome)
    IN  IF ~c1.config.enabled
        THEN [cached |-> c1, store |-> store, raised |-> "none",
              trace |-> <<>>]
        ELSE IF normalize_level_raises(Get(input_event, "level"))
        THEN [cached |-> c1, store |-> store, raised |-> "AttributeError",
              trace |-> <<>>]
        ELSE [cached |-> c1,
              store |-> [dirs |-> r.dirs, files |-> r.files],
              raised |-> IF r.err = "ok" THEN "none" ELSE r.err,
              trace |-> <<[op |-> "append", arg |-> outcome]>>]

-----------------------------------------------------------------------------
(* config.py: where load_config looks.  The filesystem is Fs: the          *)
(* directories, and the files with the JSON object each holds.  A          *)
(* directory is an absolute path; the cwd and config_path arguments are    *)
(* texts.                                                                  *)

Fs ==
    [dirs |-> {<< <<"/">> >>,
               << <<"/">>, <<"w">> >>,
               << <<"/">>, <<"w">>, <<".git">> >>,
               << <<"/">>, <<"w">>, <<"sub">> >>,
               << <<"/">>, <<"w">>, <<"empty">> >>,
               << <<"/">>, <<"p">> >>,
               << <<"/">>, <<"p">>, <<"sub">> >>,
               << <<"/">>, <<"r">> >>,
               << <<"/">>, <<"r">>, <<".git">> >>,
               << <<"/">>, <<"r">>, <<"in">> >>,
               << <<"/">>, <<"r">>, <<"in">>, <<"x">> >>},
     files |->
        [q \in {<< <<"/">>, <<"r">>, <<"in">>, <<".git">> >>,
                << <<"/">>, <<"w">>, <<"c.json">> >>,
                << <<"/">>, <<"w">>, <<"sub">>, <<".guck.json">> >>,
                << <<"/">>, <<"w">>, <<"sub">>, <<".hunch.json">> >>,
                << <<"/">>, <<"p">>, <<"c.json">> >>,
                << <<"/">>, <<"p">>, <<"sub">>, <<".guck.json">> >>,
                << <<"/">>, <<"p">>, <<"sub">>, <<".hunch.json">> >>} |->
            [default_service |-> q[2] \o q[Len(q)]]]]

\* Path(path).resolve(): a relative path is taken from os.getcwd()
Resolved(getcwd, path) ==
    IF path # <<>> /\ path[1] = <<"/">> THEN path ELSE getcwd \o path

\* what _is_dir_or_file and _read_json_file find at a path
FileAt(path) ==
    IF path \in DOMAIN Fs.files
    THEN [kind |-> "object", json |-> Fs.files[path]]
    ELSE IF path \in Fs.dirs
    THEN [kind |-> "directory"]
    ELSE [kind |-> "missing"]

\* current.parent: the parent of the root is the root
Parent(current) == IF Len(current) = 1 THEN current ELSE Front(current)

\* one turn of the loop of find_repo_root that never tests parent == current
repo_root_step_NeverStops(current, start_dir) ==
    IF FileAt(Append(current, <<".git">>)).kind # "missing"
    THEN [ret |-> <<current>>, current |-> current]
    ELSE [ret |-> <<>>, current |-> Parent(current)]

\* one turn of the loop of find_repo_root: what it returns (<<>> when it
\* goes on) and the directory it goes on with
repo_root_step(current, start_dir) ==
    IF FileAt(Append(current, <<".git">>)).kind # "missing"
    THEN [ret |-> <<current>>, current |-> current]
    ELSE IF Parent(current) = current
    THEN [ret |-> <<start_dir>>, current |-> current]
    ELSE [ret |-> <<>>, current |-> Parent(current)]

\* find_repo_root from the resolved start directory on
RECURSIVE repo_root_from(_, _)
repo_root_from(current, start_dir) ==
    IF FileAt(Append(current, <<".git">>)).kind # "missing"
    THEN current
    ELSE IF Len(current) = 1
    THEN start_dir
    ELSE repo_root_from(Front(current), start_dir)

\* find_repo_root
find_repo_root(getcwd, start_dir) ==
    repo_root_from(Resolved(getcwd, start_dir), start_dir)

\* load_config: root_dir and resolved_config_path for an explicit path,
\* once it is resolved
explicit_paths(resolved_explicit) ==
    IF resolved_explicit \in Fs.dirs
    THEN [root_dir |-> resolved_explicit,
          resolved_config_path |-> Append(resolved_explicit, <<".guck.json">>)]
    ELSE [root_dir |-> Front(resolved_explicit),
          resolved_config_path |-> resolved_explicit]

\* load_config: root_dir and resolved_config_path
config_paths(getcwd, working_dir, explicit_config) ==
    IF explicit_config # <<>>
    THEN explicit_paths(
            Resolved(getcwd, PathJoin(working_dir, explicit_config)))
    ELSE [root_dir |-> find_repo_root(getcwd, working_dir),
          resolved_config_path |->
             Append(find_repo_root(getcwd, working_dir), <<".guck.json">>)]

\* load_config once the paths are known: root_dir, config_path (<<>> for
\* None) and config
loaded_config(getcwd, e, paths) ==
    [root_dir |-> paths.root_dir,
     config_path |->
        IF FileAt(Resolved(getcwd, paths.resolved_config_path)).kind
              # "missing"
        THEN <<paths.resolved_config_path>>
        ELSE <<>>,
     config |->
        load_config(
           Overlay(e, [file |->
                          FileAt(Resolved(getcwd,
                                          paths.resolved_config_path))]))]

\* load_config(cwd=cwd, config_path=config_path)
load_config_from(getcwd, e, cwd, config_path) ==
    loaded_config(
       getcwd, e,
       config_paths(getcwd,
                    IF cwd # <<>> THEN PathJoin(<<>>, cwd)
                    ELSE IF e.GUCK_CWD # <<>> THEN PathJoin(<<>>, e.GUCK_CWD)
                    ELSE IF e.INIT_CWD # <<>> THEN PathJoin(<<>>, e.INIT_CWD)
                    ELSE getcwd,
                    IF config_path # <<>> THEN config_path
                    ELSE IF e.GUCK_CONFIG # <<>> THEN e.GUCK_CONFIG
                    ELSE e.GUCK_CONFIG_PATH))

\* hunch load_config: root_dir and resolved_config_path
hunch_config_paths(getcwd, working_dir, explicit_config) ==
    IF explicit_config # <<>>
    THEN [root_dir |->
             Front(Resolved(getcwd, PathJoin(<<>>, explicit_config))),
          resolved_config_path |-> PathJoin(<<>>, explicit_config)]
    ELSE [root_dir |-> find_repo_root(getcwd, working_dir),
          resolved_config_path |->
             Append(find_repo_root(getcwd, working_dir), <<".hunch.json">>)]

\* hunch load_config once the paths are known
hunch_loaded_config(getcwd, e, paths) ==
    [loaded_config(getcwd, e, paths) EXCEPT
        !.config =
           hunch_load_config(
              Overlay(e, [file |->
                             FileAt(Resolved(getcwd,
                                             paths.resolved_config_path))]))]

\* hunch load_config(cwd=cwd, config_path=config_path)
hunch_load_config_from(getcwd, e, cwd, config_path) ==
    hunch_loaded_config(
       getcwd, e,
       hunch_config_paths(getcwd,
                          IF cwd # <<>> THEN PathJoin(<<>>, cwd) ELSE getcwd,
                          IF config_path # <<>> THEN config_path
                          ELSE e.GUCK_CONFIG))

-----------------------------------------------------------------------------
(* The host: what it calls, and with what. *)

\* the environments the process runs in
Unset == ""

BaseEnv ==
    [GUCK_STRICT_WRITE_ERRORS |-> Unset, GUCK_WRAPPED |-> Unset,
     GUCK_ENABLED |-> Unset, GUCK_SERVICE |-> <<>>, GUCK_DIR |-> <<>>,
     GUCK_SESSION_ID |-> NoneV, file |-> [kind |-> "missing"]]

ConfigFile(json) == [kind |-> "object", json |-> json]

StrictEnv == Overlay(BaseEnv, [GUCK_STRICT_WRITE_ERRORS |-> "1"])

WrappedEnv == Overlay(BaseEnv, [GUCK_WRAPPED |-> "1"])

DisabledEnv == Overlay(BaseEnv, [file |-> ConfigFile([enabled |-> FALSE])])

StdoutOnlyEnv ==
    Overlay(BaseEnv, [file |-> ConfigFile([sdk |-> [capture_stderr |-> FALSE]])])

StderrOnlyEnv ==
    Overlay(BaseEnv, [file |-> ConfigFile([sdk |-> [capture_stdout |-> FALSE]])])

Envs == {BaseEnv, StrictEnv, WrappedEnv, DisabledEnv}

\* the events the host emits
InputEvents ==
    {[message |-> Str(<<"m">>)],
     [message |-> Str(<<"m">>), level |-> Str(<<"WARN">>),
      data |-> Dict(<<[k |-> <<"Token">>, e |-> Num(1)]>>)]}

\* the texts the host writes to a stream
Chunks == {<<"a">>, <<"LF">>, <<"a", "LF">>}

\* the outcomes of the store writes of a call that attempts at most n
AllOk == [good |-> 0, then |-> OkOutcome]

Oracles(n) ==
    {AllOk} \cup [good : 0..(n - 1), then : Outcomes \ {OkOutcome}]

\* the process state a call starts on
Cur(oracle) ==
    [env |-> env, cached |-> cached, write_disabled |-> write_disabled,
     warned |-> warned, installed |-> installed, handles |-> handles,
     sys |-> sys, atexit |-> atexit, dirs |-> dirs, files |-> files,
     oracle |-> oracle, trace |-> <<>>, raised |-> "none", ret |-> 0]

\* the process state a call leaves
Commit(r) ==
    /\ cached' = r.cached
    /\ write_disabled' = r.write_disabled
    /\ warned' = r.warned
    /\ installed' = r.installed
    /\ handles' = r.handles
    /\ sys' = r.sys
    /\ atexit' = r.atexit
    /\ dirs' = r.dirs
    /\ files' = r.files

\* what a call found when it started
Pre ==
    [write_disabled |-> write_disabled, warned |-> warned, cached |-> cached,
     installed |-> installed, sys |-> sys, atexit |-> atexit, dirs |-> dirs,
     files |-> files]

\* the record of a call: ret is <<>> for None, <<v>> for the value v
Called(op, arg, r, ret) ==
    [op |-> op, arg |-> arg, raised |-> r.raised, trace |-> r.trace,
     ret |-> IF r.raised = "none" THEN ret ELSE <<>>, pre |-> Pre]

NoCall(op) ==
    [op |-> op, arg |-> <<>>, raised |-> "none", trace |-> <<>>, ret |-> <<>>,
     pre |-> Pre]

\* the process after the import of the SDK
Imported(variants, envs) ==
    /\ variant \in variants
    /\ env \in envs
    /\ default_session_id = env.GUCK_SESSION_ID
    /\ cached = NoCache
    /\ write_disabled = FALSE
    /\ warned = FALSE
    /\ installed = 0
    /\ handles = <<>>
    /\ sys = [stdout |-> 0, stderr |-> 0]
    /\ atexit = <<>>
    /\ dirs = {}
    /\ files = <<>>
    /\ written = EmptyBuffers
    /\ alive = TRUE
    /\ calls = 0
    /\ last = NoCall("import")
    /\ hunch_cached = NoCache
    /\ hunch_store = [dirs |-> {}, files |-> <<>>]
    /\ threads = <<>>

Init == Imported({"guck", "hunch"}, Envs)

\* the process is running, has imported the SDK v and has made fewer than
\* limit calls
HostCall(v, limit) ==
    /\ variant = v
    /\ alive
    /\ calls < limit
    /\ calls' = calls + 1
    /\ UNCHANGED <<threads, variant, default_session_id>>

\* the host calls emit(input_event)
Emit(input_event, oracle, limit) ==
    /\ HostCall("guck", limit)
    /\ LET r == emit(Cur(oracle), input_event)
       IN  /\ Commit(r)
           /\ last' = Called("emit", input_event, r, <<>>)
    /\ UNCHANGED <<threads, env, written, alive, hunch_cached, hunch_store>>

\* the host calls install_auto_capture()
Install(limit) ==
    /\ HostCall("guck", limit)
    /\ LET r == install_auto_capture(Cur(AllOk))
       IN  /\ Commit(r)
           /\ last' = Called("install", <<>>, r, <<r.ret>>)
           /\ written' = IF r.atexit # atexit THEN EmptyBuffers ELSE written
    /\ UNCHANGED <<threads, env, alive, hunch_cached, hunch_store>>

\* the host calls stop() on a handle some install_auto_capture returned
Stop(h, oracle, limit) ==
    /\ HostCall("guck", limit)
    /\ h \in 1..Len(handles)
    /\ LET r == stop(Cur(oracle), h)
       IN  /\ Commit(r)
           /\ last' = Called("stop", h, r, <<>>)
    /\ UNCHANGED <<threads, env, written, alive, hunch_cached, hunch_store>>

\* the host calls sys.stdout.write(data) or sys.stderr.write(data)
Write(kind, data, oracle, limit) ==
    /\ HostCall("guck", limit)
    /\ LET r == stream_write(Cur(oracle), kind, sys[kind], data)
       IN  /\ Commit(r)
           /\ last' = Called("write", [stream |-> kind, text |-> data], r,
                             <<r.ret>>)
    /\ written' = [written EXCEPT ![kind] = @ \o data]
    /\ UNCHANGED <<threads, env, alive, hunch_cached, hunch_store>>

\* the process terminates normally
Exit(oracle) ==
    /\ variant = "guck"
    /\ alive
    /\ LET r == run_exitfuncs(Cur(oracle), atexit)
       IN  /\ Commit(r)
           /\ last' = Called("exit", <<>>, r, <<>>)
    /\ alive' = FALSE
    /\ UNCHANGED <<threads, variant, default_session_id, env, written, calls,
                   hunch_cached, hunch_store>>

\* the environment or the config file changes between two calls
SetEnv(e) ==
    /\ alive
    /\ e # env
    /\ env' = e
    /\ last' = NoCall("setenv")
    /\ UNCHANGED <<threads, variant, default_session_id, cached, write_disabled,
                   warned, installed, handles, sys, atexit, dirs, files, written, alive, calls,
                   hunch_cached, hunch_store>>

\* a host that uses hunch calls hunch's emit(input_event)
HunchEmit(input_event, outcome, limit) ==
    /\ HostCall("hunch", limit)
    /\ LET r == hunch_emit(hunch_cached, hunch_store, env, input_event,
                           outcome)
       IN  /\ hunch_cached' = r.cached
           /\ hunch_store' = r.store
           /\ last' = Called("hunch_emit", input_event, r, <<>>)
    /\ UNCHANGED <<threads, env, cached, write_disabled, warned, installed, handles,
                   sys, atexit, dirs, files, written, alive>>

Next ==
    \/ \E input_event \in InputEvents, oracle \in Oracles(1) :
          Emit(input_event, oracle, MaxCalls)
    \/ Install(MaxCalls)
    \/ \E h \in 1..MaxCalls, oracle \in Oracles(MaxAttempts) :
          Stop(h, oracle, MaxCalls)
    \/ \E kind \in StreamNames, data \in Chunks, oracle \in Oracles(MaxAttempts) :
          Write(kind, data, oracle, MaxCalls)
    \/ \E oracle \in Oracles(MaxAttempts) : Exit(oracle)
    \/ \E e \in Envs : SetEnv(e)
    \/ \E input_event \in InputEvents, outcome \in Outcomes :
          HunchEmit(input_event, outcome, MaxCalls)

Spec == Init /\ [][Next]_vars

-----------------------------------------------------------------------------
(* The life of installations: install_auto_capture, stop and stream writes *)
(* under changing capture flags, with a store that never fails.            *)

LifecycleEnvs == {BaseEnv, WrappedEnv, StdoutOnlyEnv, StderrOnlyEnv}

LifecycleInit == Imported({"guck"}, LifecycleEnvs)

LifecycleNext ==
    \/ Install(MaxLifecycleCalls)
    \/ \E h \in 1..MaxLifecycleCalls : Stop(h, AllOk, MaxLifecycleCalls)
    \/ \E kind \in StreamNames : Write(kind, <<"a">>, AllOk, MaxLifecycleCalls)
    \/ \E e \in LifecycleEnvs : SetEnv(e)

SpecLifecycle == LifecycleInit /\ [][LifecycleNext]_vars

-----------------------------------------------------------------------------
(* One installation that captures both streams: the host installs, writes  *)
(* any text in any chunks, and stops; the store never fails.               *)

Alphabet == {"a", "SP", "LF", "CR", "VT"}

\* the texts of 1 to n atoms
RECURSIVE Texts(_)
Texts(n) ==
    IF n = 0 THEN {}
    ELSE {<<c>> : c \in Alphabet}
         \cup {Append(t, c) : t \in Texts(n - 1), c \in Alphabet}

CaptureInit == Imported({"guck"}, {BaseEnv})

CaptureNext ==
    \/ handles = <<>> /\ Install(MaxText + 2)
    \/ \E kind \in StreamNames, data \in Texts(MaxText) :
          /\ installed = 1
          /\ Len(written.stdout) + Len(written.stderr) + Len(data) <= MaxText
          /\ Write(kind, data, AllOk, MaxText + 2)
    \/ installed = 1 /\ Stop(1, AllOk, MaxText + 2)

SpecCapture == CaptureInit /\ [][CaptureNext]_vars

-----------------------------------------------------------------------------
(* Redaction of what is stored: the host emits events whose message, data  *)
(* and tags hold nested values, under several redaction configurations;   *)
(* the store never fails.                                                  *)

RedactionFile(redaction) == ConfigFile([redaction |-> redaction])

RedactEnvs ==
    {BaseEnv,
     Overlay(BaseEnv, [file |-> RedactionFile([keys |-> << <<"Token">> >>])]),
     Overlay(BaseEnv, [file |-> RedactionFile(
        [keys |-> << <<"SP", "secret", "SP">>, <<"SP">> >>,
         patterns |-> << <<"(">>, <<"abc">> >>])]),
     Overlay(BaseEnv, [file |-> RedactionFile([enabled |-> FALSE])])}

DataKeys == {<<"token">>, <<"TOKEN">>, <<"secret">>, <<"name">>}

Leaves == {Str(<<"abc">>), Num(1), NoneV}

Entry(k, e) == [k |-> k, e |-> e]

\* mappings of one key to a value of the set values
Mappings(values) == {Dict(<<Entry(k, e)>>) : k \in DataKeys, e \in values}

FlatMappings == Mappings(Leaves)

\* a flat mapping inside a list, a tuple, a mapping, or a list in a mapping
Nested ==
    {List(<<Num(1), d>>) : d \in FlatMappings}
    \cup {Tuple(<<d>>) : d \in FlatMappings}
    \cup {Dict(<<Entry(<<"name">>, Str(<<"abc">>)), Entry(<<"Token">>, d)>>) :
             d \in FlatMappings}
    \cup {Dict(<<Entry(<<"name">>, List(<<d>>))>>) : d \in FlatMappings}

RedactInputs ==
    {[message |-> Str(<<"hello">>), data |-> d] : d \in FlatMappings \cup Nested}
    \cup {[message |-> Str(<<"abc">>), tags |-> d] : d \in FlatMappings}
    \cup {[message |-> d] : d \in FlatMappings}

RedactInit == Imported({"guck"}, RedactEnvs)

RedactNext ==
    \E input_event \in RedactInputs : Emit(input_event, AllOk, MaxRedactCalls)

SpecRedact == RedactInit /\ [][RedactNext]_vars

-----------------------------------------------------------------------------
(* redact_event applied to an event, and again to what it returned, under  *)
(* configurations with several key and pattern lists.                      *)

RepeatEnvs ==
    RedactEnvs
    \cup {Overlay(BaseEnv, [file |-> RedactionFile(
             [patterns |-> << <<"redacted">> >>])]),
          Overlay(BaseEnv, [file |-> RedactionFile(
             [keys |-> << <<"name">> >>,
              patterns |-> << <<"abc">>, <<"hello">> >>])])}

RepeatInputs ==
    RedactInputs
    \cup {[message |-> Str(m)] :
             m \in {<<"Bearer", "SP", "credential">>, <<"sk-secret", "SP", "abc">>,
                    <<"was", "SP", "redacted">>, <<"[", "REDACTED", "]">>}}

\* the host hands an event to redact_event
Redact(event) ==
    /\ calls = 0
    /\ calls' = 1
    /\ last' = [NoCall("redact") EXCEPT
                   !.arg = event,
                   !.ret = <<redact_event(load_config(env), event)>>]
    /\ UNCHANGED <<threads, variant, default_session_id, env, cached, write_disabled, warned, installed,
                   handles, sys, atexit, dirs, files, written, alive,
                   hunch_cached, hunch_store>>

\* the host hands the event redact_event returned to redact_event again
RedactAgain ==
    /\ last.op \in {"redact", "redact_again"}
    /\ calls < MaxRedactions
    /\ calls' = calls + 1
    /\ last' = [NoCall("redact_again") EXCEPT
                   !.arg = last.ret[1],
                   !.ret = <<redact_event(load_config(env), last.ret[1])>>]
    /\ UNCHANGED <<threads, variant, default_session_id, env, cached, write_disabled, warned, installed,
                   handles, sys, atexit, dirs, files, written, alive,
                   hunch_cached, hunch_store>>

RepeatInit == Imported({"guck"}, RepeatEnvs)

RepeatNext ==
    \/ \E input_event \in RepeatInputs :
          Redact(to_event(input_event, [service |-> <<"guck">>]))
    \/ RedactAgain

SpecRepeat == RepeatInit /\ [][RepeatNext]_vars

-----------------------------------------------------------------------------
(* The store: the host emits events with several services, run ids and     *)
(* timestamps under the default configuration; no write fails.             *)

\* events that differ in service, run id and timestamp
StoreInputs ==
    {[service |-> Str(service), run_id |-> Str(run_id), ts |-> Str(ts)] :
        service \in {<<"a">>, <<"a", "/">>, <<"b">>},
        run_id \in {<<"r1">>, <<"r2">>},
        ts \in {<<"2024-01-01", "T", "10:00:00", "Z">>,
                <<"2024-01-01", "T", "23:30:00">>,
                <<"2024-01-01", "T", "23:30:00", "-02:00">>}}

\* events that differ in what ts holds
TimestampInputs ==
    {[service |-> Str(<<"a">>), ts |-> ts] :
        ts \in {Str(<<"SP", "2024-01-01", "T", "10:00:00", "Z", "SP">>),
                Str(<<"2024-01-01", "T", "00:30:00", "+05:30">>),
                Str(<<"2024-01-02">>),
                Str(<<"2024-01-01", "T", "10:00:00", "z">>),
                Str(<<"yesterday">>),
                Str(<<>>),
                Num(1704103200),
                NoneV,
                Str(<<"9999-12-31", "T", "23:30:00", "-02:00">>)}}

StoreNext ==
    \E input_event \in StoreInputs \cup TimestampInputs :
       Emit(input_event, AllOk, MaxStoreCalls)

SpecStore == Imported({"guck"}, {BaseEnv}) /\ [][StoreNext]_vars

-----------------------------------------------------------------------------
(* Appending: the host emits events of two services into a store whose     *)
(* writes may fail.                                                        *)

AppendInputs ==
    {[service |-> Str(<<"a">>), message |-> Str(<<"m1">>)],
     [service |-> Str(<<"a">>), message |-> Str(<<"m2">>)],
     [service |-> Str(<<"b">>), message |-> Str(<<"m1">>),
      data |-> Dict(<<[k |-> <<"token">>, e |-> Str(<<"abc">>)]>>)]}

AppendNext ==
    \E input_event \in AppendInputs, oracle \in Oracles(1) :
       Emit(input_event, oracle, MaxAppendCalls)

SpecAppend == Imported({"guck"}, {BaseEnv, StrictEnv}) /\ [][AppendNext]_vars

-----------------------------------------------------------------------------
(* Fields: the host emits events that have, lack or null each field, in a  *)
(* process imported with and without GUCK_SESSION_ID.                      *)

CoreFields == {"id", "ts", "level", "type", "service", "run_id", "source"}

\* a non-null value of the field
ValueOf(f) ==
    IF f \in {"data", "tags", "source"}
    THEN Dict(<<[k |-> <<"k">>, e |-> NoneV]>>)
    ELSE Str(<<f>>)

FieldInputs ==
    {(f :> v) : f \in OptionalFields \cup {"session_id"},
                v \in {NoneV, Str(<<"v">>),
                       Dict(<<[k |-> <<"k">>, e |-> NoneV]>>)}}
    \cup {[f \in OptionalFields \cup {"session_id"} |-> ValueOf(f)],
          [f \in OptionalFields \cup {"session_id"} |-> NoneV],
          [f \in CoreFields |-> NoneV],
          [f \in CoreFields \ {"level"} |-> ValueOf(f)],
          [message |-> Str(<<"m">>), color |-> Str(<<"red">>)],
          [color |-> NoneV]}

LevelInputs ==
    {[level |-> v] :
        v \in {NoneV, Str(<<>>), Str(<<"INFO">>), Str(<<"Warn">>),
               Str(<<"fatal">>), Str(<<"verbose">>), Str(<<"SP", "warn">>),
               Num(0), Num(5), Bool(FALSE), Bool(TRUE), List(<<>>),
               List(<<Str(<<"warn">>)>>)}}

FieldsNext ==
    \E input_event \in FieldInputs \cup LevelInputs :
       Emit(input_event, AllOk, MaxFieldCalls)

SpecFields ==
    /\ Imported({"guck"},
                {BaseEnv,
                 Overlay(BaseEnv, [GUCK_SESSION_ID |-> Str(<<"s1">>)]),
                 Overlay(BaseEnv, [GUCK_SESSION_ID |-> Str(<<>>)])})
    /\ [][FieldsNext]_vars

-----------------------------------------------------------------------------
(* The cache: the host emits, and between the emits the environment and    *)
(* the config file change.                                                 *)

CacheEnvs ==
    {BaseEnv,
     Overlay(BaseEnv, [GUCK_SERVICE |-> <<"svc">>]),
     Overlay(BaseEnv, [GUCK_DIR |-> << <<"/">>, <<"srv">> >>]),
     Overlay(BaseEnv, [GUCK_ENABLED |-> "false"]),
     Overlay(BaseEnv, [file |-> RedactionFile([keys |-> << <<"name">> >>])])}

CacheInput ==
    [message |-> Str(<<"m">>),
     data |-> Dict(<<[k |-> <<"name">>, e |-> Str(<<"x">>)]>>)]

CacheNext ==
    \/ Emit(CacheInput, AllOk, MaxCacheCalls)
    \/ HunchEmit(CacheInput, OkOutcome, MaxCacheCalls)
    \/ \E e \in CacheEnvs : SetEnv(e)

SpecCache == Imported({"guck", "hunch"}, CacheEnvs) /\ [][CacheNext]_vars

-----------------------------------------------------------------------------
(* The guard: the host installs, writes and stops under the wrapped-child  *)
(* guard and under configurations that disable capture.                    *)

GuardEnvs ==
    {BaseEnv, WrappedEnv, DisabledEnv, StdoutOnlyEnv, StderrOnlyEnv,
     Overlay(BaseEnv, [file |-> ConfigFile([sdk |-> [enabled |-> FALSE]])]),
     Overlay(BaseEnv,
             [file |-> ConfigFile([sdk |-> [capture_stdout |-> FALSE,
                                            capture_stderr |-> FALSE]])])}

GuardNext ==
    \/ Install(MaxGuardCalls)
    \/ \E h \in 1..MaxGuardCalls : Stop(h, AllOk, MaxGuardCalls)
    \/ \E kind \in StreamNames : Write(kind, <<"a", "LF">>, AllOk, MaxGuardCalls)
    \/ \E e \in GuardEnvs : SetEnv(e)

SpecGuard == Imported({"guck"}, GuardEnvs) /\ [][GuardNext]_vars

-----------------------------------------------------------------------------
(* The last flush: the host writes text without a line end to captured     *)
(* streams, stops handles and exits.                                       *)

FlushNext ==
    \/ Install(MaxFlushCalls)
    \/ \E h \in 1..MaxFlushCalls : Stop(h, AllOk, MaxFlushCalls)
    \/ \E kind \in StreamNames : Write(kind, <<"a">>, AllOk, MaxFlushCalls)
    \/ \E e \in {StdoutOnlyEnv, StderrOnlyEnv} : SetEnv(e)
    \/ Exit(AllOk)

SpecFlush ==
    /\ Imported({"guck"}, {StdoutOnlyEnv, StderrOnlyEnv})
    /\ [][FlushNext]_vars

-----------------------------------------------------------------------------
(* Paths: the host calls load_config(cwd=..., config_path=...) in a        *)
(* process whose current directory is getcwd.                              *)

PathEnvs ==
    {Overlay(BaseEnv, [GUCK_CWD |-> c, INIT_CWD |-> <<>>, GUCK_CONFIG |-> g,
                       GUCK_CONFIG_PATH |-> <<>>]) :
        c \in {<<>>, <<"/", "p">>},
        g \in {<<>>, <<"/", "p", "/", "c.json">>}}

ConfigPaths ==
    {<<>>, <<"sub">>, <<"c.json">>, <<"empty">>, <<"nope.json">>,
     <<"sub", "/", ".guck.json">>, <<"/", "w", "/", "sub">>,
     <<"/", "w", "/", "c.json">>, <<"/", "p", "/", "sub">>}

\* the host calls load_config(cwd=cwd, config_path=config_path)
LoadConfig(getcwd, cwd, config_path) ==
    /\ calls < MaxPathCalls
    /\ calls' = calls + 1
    /\ last' = [NoCall("load_config") EXCEPT
                   !.arg = [getcwd |-> getcwd, cwd |-> cwd,
                            config_path |-> config_path],
                   !.ret = <<IF variant = "guck"
                             THEN load_config_from(getcwd, env, cwd,
                                                   config_path)
                             ELSE hunch_load_config_from(getcwd, env, cwd,
                                                         config_path)>>]
    /\ UNCHANGED <<threads, variant, default_session_id, env, cached, write_disabled,
                   warned, installed, handles, sys, atexit, dirs, files,
                   written, alive, hunch_cached, hunch_store>>

PathsNext ==
    \E getcwd \in {<< <<"/">>, <<"w">> >>, << <<"/">>, <<"p">> >>},
       cwd \in {<<>>, <<"/", "w">>, <<"/", "p">>},
       config_path \in ConfigPaths :
       LoadConfig(getcwd, cwd, config_path)

SpecPaths == Imported({"guck", "hunch"}, PathEnvs) /\ [][PathsNext]_vars

-----------------------------------------------------------------------------
(* Configuration: the host resolves the configuration and the store        *)
(* directory as _get_cached does, load_config() and then                   *)
(* resolve_store_dir(config, root_dir), with the config file and the root  *)
(* directory load_config finds.  A file that gives no object carries under *)
(* json what is written in it.                                             *)

ConfigEnvs ==
    {Overlay(BaseEnv, [GUCK_ENABLED |-> b, GUCK_SERVICE |-> s, GUCK_DIR |-> d]) :
        b \in {Unset, " true ", " FALSE ", "yes"},
        s \in {<<>>, <<"svc">>},
        d \in {<<>>, << <<"/">>, <<"d">> >>}}

\* files load_config reads no object from
BadFiles ==
    {[kind |-> "missing"],
     [kind |-> "unreadable", json |-> [enabled |-> FALSE]],
     [kind |-> "malformed", json |-> [default_service |-> <<"s">>]],
     [kind |-> "array", json |-> [redaction |-> [enabled |-> FALSE]]]}

\* files that hold a JSON object
ObjectFiles ==
    {ConfigFile(json) :
        json \in {[enabled |-> FALSE],
                  [default_service |-> <<"s">>,
                   store_dir |-> << <<"/">>, <<"x">> >>],
                  [redaction |-> [enabled |-> FALSE], extra |-> 1],
                  [sdk |-> [capture_stdout |-> FALSE],
                   mcp |-> [max_results |-> 5, http |-> 1]],
                  [sdk |-> Scalar(TRUE)],
                  [redaction |-> Scalar(TRUE)],
                  [mcp |-> Scalar(FALSE)]}}

RootDirs == {ROOT_DIR, << <<"/">>, <<"w">> >>}

\* _get_cached: load_config() and resolve_store_dir(config, root_dir)
resolved(e, root_dir) ==
    [config |-> load_config(e), store_dir |-> resolve_store_dir(e)]

hunch_resolved(e, root_dir) ==
    [config |-> hunch_load_config(e),
     store_dir |-> hunch_resolve_store_dir(hunch_load_config(e), root_dir)]

\* the host resolves configuration and store directory
ResolveConfig(file, root_dir) ==
    /\ alive
    /\ calls < MaxConfigCalls
    /\ calls' = calls + 1
    /\ last' = [NoCall("resolve") EXCEPT
                   !.arg = [file |-> file, root_dir |-> root_dir],
                   !.raised =
                      IF IF variant = "guck"
                         THEN load_config_raises(Overlay(env, [file |-> file]))
                         ELSE hunch_load_config_raises(
                                 Overlay(env, [file |-> file]))
                      THEN "TypeError"
                      ELSE "none",
                   !.ret =
                      IF variant = "guck"
                      THEN IF load_config_raises(Overlay(env, [file |-> file]))
                           THEN <<>>
                           ELSE <<resolved(Overlay(env, [file |-> file]),
                                           root_dir)>>
                      ELSE IF hunch_load_config_raises(
                                 Overlay(env, [file |-> file]))
                           THEN <<>>
                           ELSE <<hunch_resolved(Overlay(env, [file |-> file]),
                                                 root_dir)>>]
    /\ UNCHANGED <<threads, variant, default_session_id, env, cached, write_disabled,
                   warned, installed, handles, sys, atexit, dirs, files,
                   written, alive, hunch_cached, hunch_store>>

ConfigNext ==
    \E file \in BadFiles \cup ObjectFiles, root_dir \in RootDirs :
       ResolveConfig(file, root_dir)

SpecConfig == Imported({"guck", "hunch"}, ConfigEnvs) /\ [][ConfigNext]_vars

-----------------------------------------------------------------------------
(* Threads: several threads of the host call emit while _cached is None.   *)
(* The interpreter may switch threads between any two statements of        *)
(* _get_cached, and load_config reads the file system, which releases the  *)
(* interpreter lock.  A thread is [pc, loaded, got]: the statement of      *)
(* _get_cached it is at, its locals loaded and store_dir, and what         *)
(* _get_cached returned to it.  calls counts the calls of load_config.     *)

ThreadEnvs == {BaseEnv, Overlay(BaseEnv, [GUCK_SERVICE |-> <<"svc">>])}

\* a thread calls emit, finds _write_disabled false and calls _get_cached
ThreadEnters ==
    /\ Len(threads) < MaxThreads
    /\ ~write_disabled
    /\ threads' = Append(threads, [pc |-> "test", loaded |-> NoCache,
                                    got |-> NoCache])
    /\ UNCHANGED <<variant, default_session_id, env, cached, write_disabled,
                   warned, installed, handles, sys, atexit, dirs, files,
                   written, alive, calls, last, hunch_cached, hunch_store>>

\* if _cached is not None
ThreadTests(t) ==
    /\ threads[t].pc = "test"
    /\ threads' = [threads EXCEPT
                      ![t].pc = IF cached.set THEN "return" ELSE "load"]
    /\ UNCHANGED <<variant, default_session_id, env, cached, write_disabled,
                   warned, installed, handles, sys, atexit, dirs, files,
                   written, alive, calls, last, hunch_cached, hunch_store>>

\* loaded = load_config(); store_dir = resolve_store_dir(...)
ThreadLoads(t) ==
    /\ threads[t].pc = "load"
    /\ threads' = [threads EXCEPT
                      ![t].pc = "assign",
                      ![t].loaded = [set |-> TRUE,
                                     store_dir |-> resolve_store_dir(env),
                                     config |-> load_config(env)]]
    /\ calls' = calls + 1
    /\ UNCHANGED <<variant, default_session_id, env, cached, write_disabled,
                   warned, installed, handles, sys, atexit, dirs, files,
                   written, alive, last, hunch_cached, hunch_store>>

\* _cached = {"store_dir": store_dir, "config": loaded["config"]}
ThreadAssigns(t) ==
    /\ threads[t].pc = "assign"
    /\ cached' = threads[t].loaded
    /\ threads' = [threads EXCEPT ![t].pc = "return"]
    /\ UNCHANGED <<variant, default_session_id, env, write_disabled,
                   warned, installed, handles, sys, atexit, dirs, files,
                   written, alive, calls, last, hunch_cached, hunch_store>>

\* return _cached
ThreadReturns(t) ==
    /\ threads[t].pc = "return"
    /\ threads' = [threads EXCEPT ![t].pc = "done", ![t].got = cached]
    /\ UNCHANGED <<variant, default_session_id, env, cached, write_disabled,
                   warned, installed, handles, sys, atexit, dirs, files,
                   written, alive, calls, last, hunch_cached, hunch_store>>

ThreadsNext ==
    \/ ThreadEnters
    \/ \E t \in 1..MaxThreads :
          /\ t <= Len(threads)
          /\ \/ ThreadTests(t)
             \/ ThreadLoads(t)
             \/ ThreadAssigns(t)
             \/ ThreadReturns(t)
    \/ \E e \in ThreadEnvs : SetEnv(e)

SpecThreads == Imported({"guck"}, ThreadEnvs) /\ [][ThreadsNext]_vars

-----------------------------------------------------------------------------
(* Lines: the host installs once, writes text that tells the two streams   *)
(* apart ("o" to stdout, "e" to stderr) in whole and partial lines, stops  *)
(* and exits; the store never fails.                                       *)

\* the text the host writes to a stream
LineChunks(kind) ==
    IF kind = "stdout" THEN {<<"o">>, <<"o", "LF">>} ELSE {<<"e">>, <<"e", "LF">>}

LinesNext ==
    \/ handles = <<>> /\ Install(MaxLineCalls)
    \/ \E kind \in StreamNames :
          \E data \in LineChunks(kind) :
             Write(kind, data, AllOk, MaxLineCalls)
    \/ \E h \in 1..MaxLineCalls : Stop(h, AllOk, MaxLineCalls)
    \/ Exit(AllOk)

SpecLines ==
    /\ Imported({"guck"}, {BaseEnv, StdoutOnlyEnv, StderrOnlyEnv})
    /\ [][LinesNext]_vars

-----------------------------------------------------------------------------
(* The walk of find_repo_root, one turn of its loop at a time.  The record *)
(* of the call holds the directory the loop is at as its trace, and what   *)
(* the call returned once it has returned.                                 *)

WorkingDirs ==
    {<< <<"/">>, <<"w">> >>, << <<"/">>, <<"p">> >>,
     << <<"/">>, <<"r">>, <<"in">> >>}

StartDirs ==
    {<<>>, << <<"sub">> >>, << <<"x">> >>, << <<"/">> >>,
     << <<"/">>, <<"w">>, <<"sub">> >>,
     << <<"/">>, <<"w">>, <<"gone">>, <<"deep">> >>,
     << <<"/">>, <<"p">>, <<"sub">> >>,
     << <<"/">>, <<"r">> >>,
     << <<"/">>, <<"r">>, <<"in">>, <<"x">> >>}

\* the call has not returned
Walking == last.op = "find_repo_root" /\ last.ret = <<>>

\* the host calls find_repo_root(start_dir) in the directory getcwd:
\* current = Path(start_dir).resolve()
FindRepoRoot(getcwd, start_dir) ==
    /\ ~Walking
    /\ calls < MaxWalkCalls
    /\ calls' = calls + 1
    /\ last' = [NoCall("find_repo_root") EXCEPT
                   !.arg = [getcwd |-> getcwd, start_dir |-> start_dir],
                   !.trace = <<Resolved(getcwd, start_dir)>>]
    /\ UNCHANGED <<variant, default_session_id, env, cached, write_disabled,
                   warned, installed, handles, sys, atexit, dirs, files,
                   written, alive, hunch_cached, hunch_store, threads>>

\* one turn of while True
WalkStep ==
    /\ Walking
    /\ last' = [last EXCEPT
                   !.ret = repo_root_step(last.trace[1],
                                          last.arg.start_dir).ret,
                   !.trace = <<repo_root_step(last.trace[1],
                                              last.arg.start_dir).current>>]
    /\ UNCHANGED <<variant, default_session_id, env, cached, write_disabled,
                   warned, installed, handles, sys, atexit, dirs, files,
                   written, alive, calls, hunch_cached, hunch_store, threads>>

WalkNext ==
    \/ \E getcwd \in WorkingDirs, start_dir \in StartDirs :
          FindRepoRoot(getcwd, start_dir)
    \/ WalkStep

\* a call that is running goes on running
SpecWalk ==
    /\ Imported({"guck", "hunch"}, {BaseEnv})
    /\ [][WalkNext]_vars
    /\ WF_vars(WalkStep)

-----------------------------------------------------------------------------
(* The frame of redact_event: the host hands it an event and then looks at *)
(* the event it handed over and at the event it got back.  The record of   *)
(* the call holds the event handed over as arg, and what that object holds *)
(* after the call as its trace.                                            *)

RedactEvent(event) ==
    /\ calls < MaxFrameCalls
    /\ calls' = calls + 1
    /\ last' = [NoCall("redact_event") EXCEPT
                   !.arg = event,
                   !.trace = <<[op |-> "event",
                                arg |-> redact_applied(load_config(env),
                                                       event).event]>>,
                   !.ret = <<redact_applied(load_config(env), event).redacted>>]
    /\ UNCHANGED <<variant, default_session_id, env, cached, write_disabled,
                   warned, installed, handles, sys, atexit, dirs, files,
                   written, alive, hunch_cached, hunch_store, threads>>

FrameNext ==
    \E input_event \in RedactInputs :
       RedactEvent(to_event(input_event, [service |-> <<"guck">>]))

SpecFrame == Imported({"guck"}, RedactEnvs) /\ [][FrameNext]_vars

-----------------------------------------------------------------------------
(* Path syntax in service and run_id: the host emits events whose service  *)
(* and run id hold separators, parent-directory segments or an absolute    *)
(* path, under the default configuration; no write fails.                  *)

EscapeInputs ==
    {[service |-> Str(service), run_id |-> Str(run_id),
      ts |-> Str(<<"2024-01-01", "T", "10:00:00", "Z">>)] :
        service \in {<<"a">>, <<"a", "/", "b">>, <<"..", "/", "x">>,
                     <<"a", "/", "..", "/", "..">>, <<"/", "x">>},
        run_id \in {<<"r">>, <<"..", "/", "r">>,
                    <<"..", "/", "..", "/", "..", "/", "r">>, <<"/", "r">>,
                    <<"b", "/", "r">>}}

EscapeNext ==
    \E input_event \in EscapeInputs : Emit(input_event, AllOk, MaxEscapeCalls)

SpecEscape == Imported({"guck"}, {BaseEnv}) /\ [][EscapeNext]_vars

-----------------------------------------------------------------------------
(* Reading the record of the last call. *)

\* the calls of the host that run SDK code of guck
GuckCalls == {"emit", "install", "stop", "write", "exit"}

\* the store writes the call attempted
Attempts(trace) == {i \in DOMAIN trace : trace[i].op = "append"}

\* the store writes of the call that failed with an errno in S
Failures(trace, S) ==
    {i \in Attempts(trace) : trace[i].arg.errno \in S}

\* the writes the call made to the real stream kind
Forwards(trace, kind) ==
    {i \in DOMAIN trace : trace[i].op = "fwd" /\ trace[i].arg.stream = kind}

\* the call wrote the write-disabled diagnostic
Diagnosed(trace) ==
    \E i \in DOMAIN trace : trace[i].op = "fwd" /\ trace[i].arg.text = DIAGNOSTIC

StoreUntouched == dirs = last.pre.dirs /\ files = last.pre.files

Strict == env.GUCK_STRICT_WRITE_ERRORS = "1"

\* the messages of the stored events a captured stream of this kind emitted
StoredMessages(kind) ==
    IF DOMAIN files = {}
    THEN <<>>
    ELSE LET path == CHOOSE q \in DOMAIN files : TRUE
             own == SelectSeq(files[path], LAMBDA l : l["type"] = Str(<<kind>>))
         IN  [i \in 1..Len(own) |-> own[i]["message"].v]

\* the non-blank lines of a text
NonBlankLines(text) == SelectSeq(SplitLines(text), LAMBDA l : ~IsBlank(l))

\* the number of capturing writers between sys.stdout or sys.stderr holding
\* the object target and the real stream
RECURSIVE WrapDepth(_, _)
WrapDepth(target, kind) ==
    IF target = 0 THEN 0 ELSE 1 + WrapDepth(handles[target].original[kind], kind)

\* the environment makes install_auto_capture return a no-op handle
CaptureOff(e) ==
    \/ e.GUCK_WRAPPED = "1"
    \/ ~load_config(e).enabled
    \/ ~load_config(e).sdk.enabled
    \/ ~(load_config(e).sdk.capture_stdout \/ load_config(e).sdk.capture_stderr)

\* a value as stored holds the sentinel under every key that, lower-cased,
\* is one of keys, in every mapping at every depth
RECURSIVE SentinelUnderKeys(_, _)
SentinelUnderKeys(value, keys) ==
    CASE value.t = "list" ->
            \A i \in 1..Len(value.v) : SentinelUnderKeys(value.v[i], keys)
      [] value.t = "dict" ->
            \A i \in 1..Len(value.v) :
               IF Lower(value.v[i].k) \in keys
               THEN value.v[i].e = Str(REDACTED_VALUE)
               ELSE SentinelUnderKeys(value.v[i].e, keys)
      [] OTHER -> TRUE

\* the UTC calendar date of the instant a timestamp text names, for the
\* texts the host passes; "" for a text that names no instant
UtcDateOf(ts) ==
    CASE ts \in {<<"2024-01-01", "T", "10:00:00", "Z">>,
                 <<"SP", "2024-01-01", "T", "10:00:00", "Z", "SP">>,
                 <<"2024-01-01", "T", "23:30:00">>} -> "2024-01-01"
      [] ts \in {<<"2024-01-01", "T", "23:30:00", "-02:00">>,
                 <<"2024-01-02">>} -> "2024-01-02"
      [] ts = <<"2024-01-01", "T", "00:30:00", "+05:30">> -> "2023-12-31"
      [] ts = <<"9999-12-31", "T", "23:30:00", "-02:00">> -> "10000-01-01"
      [] ts = NowIso -> "2026-11-02"
      [] OTHER -> ""

\* the date an event is to be filed under: the UTC date of its ts, today's
\* when ts is no string or names no instant
FilingDate(ts) ==
    IF ts.t = "str" /\ UtcDateOf(ts.v) # "" THEN UtcDateOf(ts.v) ELSE Today[1]

\* the triple a stored line is to be filed under
Triple(line) ==
    <<line["service"].v, FilingDate(line["ts"]), line["run_id"].v>>

\* the lines a file held before the last call
Before(path) ==
    IF path \in DOMAIN last.pre.files THEN last.pre.files[path] ELSE <<>>

\* the last call was an emit that wrote its event
Stored ==
    /\ last.op = "emit"
    /\ last.raised = "none"
    /\ \E i \in Attempts(last.trace) : last.trace[i].arg.errno = "ok"

\* the last call added one line at the end of the file path and left the
\* other files as they were
AppendedTo(path) ==
    /\ DOMAIN files = DOMAIN last.pre.files \cup {path}
    /\ Len(files[path]) = Len(Before(path)) + 1
    /\ Front(files[path]) = Before(path)
    /\ \A q \in DOMAIN files \ {path} : files[q] = last.pre.files[q]

\* storeDir/<service>/<date>/<run_id>.jsonl for a stored line, the date
\* being the one the line is to be filed under
ExpectedPath(line) ==
    PathJoin(Append(PathJoin(cached.store_dir, line["service"].v),
                    <<FilingDate(line["ts"])>>),
             line["run_id"].v \o <<".jsonl">>)

\* the line the last call added to the store
StoredLine ==
    LET path == CHOOSE q \in DOMAIN files : AppendedTo(q)
    IN  files[path][Len(files[path])]

\* the level the stored event is to have for this input level
ExpectedLevel(level) ==
    IF level.t = "str" /\ \E l \in Levels : Lower(level.v) = <<l>>
    THEN Lower(level.v)
    ELSE <<"info">>

\* the files after the event a configuration makes of an input is appended
\* under a store directory
FiledBy(c, f, input_event) ==
    LET event == redact_event(
                    c.config,
                    to_event(input_event,
                             [service |-> c.config.default_service]))
        path == FilePath(c.store_dir, event)
    IN  [q \in DOMAIN f \cup {path} |->
            IF q = path
            THEN Append(IF q \in DOMAIN f THEN f[q] ELSE <<>>,
                        EventLine(event))
            ELSE f[q]]

\* the call entered emit
Emitted(trace) == \E i \in DOMAIN trace : trace[i].op = "emit"

\* the places of the events of a stream that the files f1 hold beyond the
\* files f0
AddedBy(f0, f1, kind) ==
    {place \in UNION {{<<q, i>> : i \in 1..Len(f1[q])} : q \in DOMAIN f1} :
        /\ place[2] > (IF place[1] \in DOMAIN f0 THEN Len(f0[place[1]]) ELSE 0)
        /\ f1[place[1]][place[2]]["type"] = Str(<<kind>>)}

\* what load_config is to return for an explicit path that, taken from the
\* working directory, is the path target, the fixed-name file being name
ExplicitlyLoaded(loaded, target, name) ==
    /\ target \in Fs.dirs
          => /\ loaded.root_dir = target
             /\ loaded.config_path =
                   IF Append(target, name) \in DOMAIN Fs.files
                   THEN <<Append(target, name)>>
                   ELSE <<>>
             /\ Append(target, name) \in DOMAIN Fs.files
                   => loaded.config.default_service =
                         Fs.files[Append(target, name)].default_service
    /\ target \in DOMAIN Fs.files
          => /\ loaded.root_dir = Front(target)
             /\ loaded.config_path = <<target>>
             /\ loaded.config.default_service =
                   Fs.files[target].default_service

\* the defaults with only the overrides of the environment applied
WithEnvOverrides(defaults) ==
    [k \in DOMAIN defaults |->
        CASE k = "enabled" /\ parse_bool(env.GUCK_ENABLED) # "none" ->
                parse_bool(env.GUCK_ENABLED) = "true"
          [] k = "default_service" /\ env.GUCK_SERVICE # <<>> ->
                env.GUCK_SERVICE
          [] k = "store_dir" /\ env.GUCK_DIR # <<>> -> env.GUCK_DIR
          [] OTHER -> defaults[k]]

\* the built-in defaults of the SDK the process imported
Defaults == IF variant = "guck" THEN DEFAULT_CONFIG ELSE HUNCH_DEFAULT_CONFIG

\* the last call resolved the configuration
Resolution == last.op = "resolve"

\* the nested sections of the configuration
Sections == IF variant = "guck" THEN {"sdk", "redaction", "mcp"}
            ELSE {"redaction", "mcp"}

\* the keys the file gives in a section
GivenKeys(json, section) ==
    IF section \in DOMAIN json /\ ~IsScalar(json[section])
    THEN DOMAIN json[section]
    ELSE {}

\* no variable of the environment overrides the configuration
NoOverrides ==
    /\ parse_bool(env.GUCK_ENABLED) = "none"
    /\ env.GUCK_SERVICE = <<>>
    /\ env.GUCK_DIR = <<>>

\* the last call merged the object of a config file into the defaults
MergedFile ==
    /\ Resolution
    /\ last.arg.file.kind = "object"
    /\ NoOverrides

\* config is the sectioned merge of json into defaults, but for the keys
\* dropped of each section
SectionedMerge(defaults, json, config, dropped) ==
    /\ \A k \in (DOMAIN json \cap DOMAIN defaults) \ Sections :
          config[k] = json[k]
    /\ \A section \in Sections :
          /\ DOMAIN defaults[section] \subseteq DOMAIN config[section]
          /\ \A k \in DOMAIN defaults[section] \ GivenKeys(json, section) :
                config[section][k] = defaults[section][k]
          /\ \A k \in GivenKeys(json, section) \ dropped :
                /\ k \in DOMAIN config[section]
                /\ config[section][k] = json[section][k]

\* what the file, or the defaults when the file gives none, say of enabled
FileEnabled ==
    IF last.arg.file.kind = "object" /\ "enabled" \in DOMAIN last.arg.file.json
    THEN last.arg.file.json.enabled
    ELSE Defaults.enabled

\* the writes of the write-disabled diagnostic to the real error stream
Diagnostics(trace) ==
    {i \in Forwards(trace, "stderr") : trace[i].arg.text = DIAGNOSTIC}

\* a step that writes the diagnostic writes it once and sets the latch, and
\* no step clears the latch
DiagnosedWithLatch ==
    /\ write_disabled => write_disabled'
    /\ Diagnostics(last'.trace) # {} =>
          /\ Cardinality(Diagnostics(last'.trace)) = 1
          /\ ~write_disabled
          /\ write_disabled'

\* the events the call handed to emit
EmittedEvents(trace) ==
    {trace[i].arg : i \in {j \in DOMAIN trace : trace[j].op = "emit"}}

\* every line the store holds
StoredLines ==
    UNION {{files[q][i] : i \in 1..Len(files[q])} : q \in DOMAIN files}

\* the event, or the stored line, is one of a line of the stream kind: type
\* and source.kind name the stream, the level is the stream's, and the
\* message is text that was written to that stream
OfStream(event, kind) ==
    /\ event["type"] = Str(<<kind>>)
    /\ event["source"] = Dict(<<[k |-> <<"kind">>, e |-> Str(<<kind>>)]>>)
    /\ event["level"] = Str(<<IF kind = "stdout" THEN "info" ELSE "error">>)
    /\ \A j \in 1..Len(event["message"].v) :
          event["message"].v[j] = (IF kind = "stdout" THEN "o" ELSE "e")

\* the directory and its ancestors that hold the version-control marker
MarkedAncestors(dir) ==
    {SubSeq(dir, 1, n) : n \in {m \in 1..Len(dir) :
        \/ Append(SubSeq(dir, 1, m), <<".git">>) \in Fs.dirs
        \/ Append(SubSeq(dir, 1, m), <<".git">>) \in DOMAIN Fs.files}}

\* find_repo_root has returned
Returned == last.op = "find_repo_root" /\ last.ret # <<>>

\* what the call returned is the nearest marked directory, or the start
\* directory as it was given when no directory is marked
NearestMarked(start, start_dir, result) ==
    IF MarkedAncestors(start) = {}
    THEN result = start_dir
    ELSE /\ result \in MarkedAncestors(start)
         /\ \A d \in MarkedAncestors(start) : Len(d) <= Len(result)

\* what the call did after it wrote the diagnostic to the real stream
AfterDiagnostic(trace, op) ==
    {i \in DOMAIN trace :
        /\ trace[i].op = op
        /\ \E d \in Diagnostics(trace) : d < i}

\* the file at this path lies below the directory
Inside(path, dir) ==
    /\ Len(Normal(path)) > Len(dir)
    /\ SubSeq(Normal(path), 1, Len(dir)) = dir

\* the text is one name: no separator, not a parent-directory segment
PlainName(text) ==
    /\ text # <<"..">>
    /\ \A i \in 1..Len(text) : text[i] # "/"

-----------------------------------------------------------------------------
(* The claims. *)

\* C1: once an emit has hit a permission-class store failure (EACCES, EPERM,
\* EROFS) with strict mode off, the facade is write-disabled, and every later
\* call of emit, install_auto_capture, stop or a stream write leaves the latch
\* set, returns, and attempts no store write.
C1_LatchIsOneWay ==
    /\ (/\ last.op \in GuckCalls
        /\ ~Strict
        /\ Failures(last.trace, {"EACCES", "EPERM", "EROFS"}) # {})
       => write_disabled
    /\ (last.op \in GuckCalls /\ last.pre.write_disabled)
       => /\ write_disabled
          /\ last.raised = "none"
          /\ Attempts(last.trace) = {}
          /\ StoreUntouched

\* C1 witness: an emit that ran with the latch already set.
C1_Witness ==
    /\ last.op = "emit"
    /\ last.pre.write_disabled
    /\ last.pre.cached.config.enabled

C3_DisabledNoWrites ==
    (variant = "guck" /\ cached.set /\ ~cached.config.enabled)
       => /\ dirs = {}
          /\ files = <<>>
          /\ Attempts(last.trace) = {}

\* C3 witness: an emit under a cached configuration with enabled = false,
\* made when the environment no longer disables the SDK.
C3_Witness ==
    /\ last.op = "emit"
    /\ cached.set
    /\ ~cached.config.enabled
    /\ load_config(env).enabled

\* C4 as stated: after any writes to the captured streams and a stop(), the
\* messages of the events a stream emitted are the non-blank lines of all the
\* text written to it, in order, however the text was cut into writes.
C4_ChunkingIndependent ==
    (last.op = "stop" /\ last.raised = "none")
       => \A kind \in StreamNames :
             StoredMessages(kind) = NonBlankLines(written[kind])

\* C4 on text whose only line boundaries are "\n" and "\r": the messages are
\* the non-blank lines of the text, however it was cut into writes.
C4_HoldsForNewlines ==
    (/\ last.op = "stop"
     /\ last.raised = "none"
     /\ \A kind \in StreamNames :
           \A i \in 1..Len(written[kind]) : written[kind][i] # "VT")
       => \A kind \in StreamNames :
             StoredMessages(kind) = NonBlankLines(written[kind])

\* C5 as stated: whatever install_auto_capture() and stop() calls were made,
\* each of stdout and stderr is wrapped by at most one capturing writer, at
\* most one flush callback is registered, and an install while installed
\* returns the existing handle and wraps nothing.
C5_AtMostOneInstallation ==
    /\ \A kind \in StreamNames : WrapDepth(sys[kind], kind) <= 1
    /\ Len(atexit) <= 1
    /\ (last.op = "install" /\ last.pre.installed # 0)
       => /\ last.ret = <<last.pre.installed>>
          /\ sys = last.pre.sys
          /\ atexit = last.pre.atexit

C7_ForwardedOnceFirst ==
    (last.op = "write" /\ last.pre.sys[last.arg.stream] # 0)
       => /\ last.trace # <<>>
          /\ last.trace[1] = [op |-> "fwd", arg |-> last.arg]
          /\ \A i \in Forwards(last.trace, last.arg.stream) :
                i # 1 => last.trace[i].arg.text # last.arg.text
          /\ last.raised = "none" => last.ret = <<Len(last.arg.text)>>

\* C7 witness: a write to a wrapped stream whose emission raised.
C7_Witness ==
    /\ last.op = "write"
    /\ last.pre.sys[last.arg.stream] # 0
    /\ last.raised # "none"

\* C8: with strict mode on, a permission-class store failure propagates to the
\* caller; the latch and the warned flag stay as they were and no diagnostic
\* is written; and an emit that finds the latch clear under an enabled
\* configuration attempts the write.
C8_StrictPropagates ==
    /\ (/\ last.op \in {"emit", "write", "stop"}
        /\ Strict
        /\ Failures(last.trace, {"EACCES", "EPERM", "EROFS"}) # {})
       => /\ last.raised \in {"EACCES", "EPERM", "EROFS"}
          /\ \A i \in Failures(last.trace, Errnos) :
                last.raised = last.trace[i].arg.errno
          /\ ~write_disabled
          /\ warned = last.pre.warned
          /\ ~Diagnosed(last.trace)
    /\ (/\ last.op = "emit"
        /\ Strict
        /\ ~last.pre.write_disabled
        /\ cached.config.enabled)
       => Attempts(last.trace) # {}

\* C8 witness: a second emit in a row that raised a permission error under
\* strict mode.
C8_Witness ==
    /\ last.op = "emit"
    /\ Strict
    /\ last.raised = "EPERM"
    /\ last.pre.dirs # {}
    /\ ~write_disabled

\* C9: a store failure that is not permission-class propagates to the caller
\* in strict and in non-strict mode and leaves the latch and the warned flag
\* as they were; an emit that finds the latch clear under an enabled
\* configuration attempts the write.
C9_OtherErrorsPropagate ==
    /\ (/\ last.op \in {"emit", "write", "stop"}
        /\ Failures(last.trace, Errnos \ {"EACCES", "EPERM", "EROFS"}) # {})
       => /\ last.raised = "ENOSPC"
          /\ write_disabled = last.pre.write_disabled
          /\ warned = last.pre.warned
    /\ (/\ last.op = "emit"
        /\ ~last.pre.write_disabled
        /\ cached.config.enabled)
       => Attempts(last.trace) # {}

\* C9 witness: an emit that raised ENOSPC with strict mode off, after an emit
\* that had made the directories.
C9_Witness ==
    /\ last.op = "emit"
    /\ ~Strict
    /\ last.raised = "ENOSPC"
    /\ last.pre.dirs # {}
    /\ ~write_disabled

\* C10 as stated: when redaction is enabled, every mapping at every depth in
\* the stored message, data and tags of an emitted event holds the sentinel
\* under every key that, lower-cased, is a configured redaction key.
C10_StoredMappingsRedacted ==
    \A path \in DOMAIN files : \A i \in 1..Len(files[path]) :
       cached.config.redaction.enabled
          => \A f \in {"message", "data", "tags"} \cap DOMAIN files[path][i] :
                SentinelUnderKeys(
                   files[path][i][f],
                   {Lower(cached.config.redaction.keys[k]) :
                       k \in 1..Len(cached.config.redaction.keys)})

\* C11 as stated: under every configuration, redact_event applied to an
\* event redact_event returned gives that event back.
C11_RedactionIdempotent ==
    last.op = "redact_again" => last.ret = <<last.arg>>

\* C11 under the default configuration: redact_event applied to an event
\* redact_event returned gives that event back.
C11_IdempotentByDefault ==
    (last.op = "redact_again" /\ env = BaseEnv) => last.ret = <<last.arg>>

\* C12 as stated: after any successful emits, two stored events are in the
\* same file exactly when they share service, UTC date of ts and run_id, and
\* each emit puts its event at the end of the file of its triple.
C12_OneFilePerTriple ==
    /\ \A p \in DOMAIN files, q \in DOMAIN files :
          \A i \in 1..Len(files[p]), j \in 1..Len(files[q]) :
             p = q <=> Triple(files[p][i]) = Triple(files[q][j])
    /\ Stored => \E path \in DOMAIN files : AppendedTo(path)

\* C12 for services and run ids that are plain names: one file per triple,
\* in emit order.
C12_HoldsForPlainNames ==
    (\A p \in DOMAIN files : \A i \in 1..Len(files[p]) :
        files[p][i]["service"].v # <<"a", "/">>)
       => C12_OneFilePerTriple

\* C13 as stated: append_event raises no error over the timestamp and writes
\* the event to storeDir/<service>/<date>/<run_id>.jsonl, the date being the
\* UTC date of the event's ts, or today's UTC date when ts is not a
\* parseable string.
C13_FiledUnderUtcDate ==
    last.op = "emit"
       => /\ last.raised = "none"
          /\ \E path \in DOMAIN files :
                /\ AppendedTo(path)
                /\ path = ExpectedPath(files[path][Len(files[path])])

\* C13 for timestamps whose UTC date is a date of the years 1 to 9999.
C13_HoldsWithinRange ==
    (last.op = "emit" /\ FilingDate(Get(last.arg, "ts")) # "10000-01-01")
       => C13_FiledUnderUtcDate

\* C14: an emit that writes its event adds exactly one line, the whole
\* event, at the end of exactly one file; what the file held stays in front
\* of it and every other file is unchanged.
C14_AppendOnly ==
    Stored
       => \E path \in DOMAIN files :
             /\ AppendedTo(path)
             /\ files[path][Len(files[path])] =
                   EventLine(redact_event(
                      cached.config,
                      to_event(last.arg,
                               [service |-> cached.config.default_service])))

\* C14 witness: an emit that added a line to a file that held lines, in a
\* store with another file.
C14_Witness ==
    /\ Stored
    /\ \E path \in DOMAIN files :
          /\ AppendedTo(path)
          /\ Before(path) # <<>>
          /\ DOMAIN files # {path}

\* C15: a stored event has id, ts, level, type, service, run_id and source;
\* it has message, data, tags, trace_id or span_id exactly when the input
\* gave a non-null value, and session_id exactly when the input or the
\* process default gives a non-null value; it has no other top-level field
\* and no top-level field is null.
C15_StoredFields ==
    Stored
       => /\ \E path \in DOMAIN files : AppendedTo(path)
          /\ CoreFields \subseteq DOMAIN StoredLine
          /\ DOMAIN StoredLine
                \subseteq CoreFields \cup OptionalFields \cup {"session_id"}
          /\ \A f \in OptionalFields :
                f \in DOMAIN StoredLine
                   <=> (f \in DOMAIN last.arg /\ last.arg[f] # NoneV)
          /\ "session_id" \in DOMAIN StoredLine
                <=> \/ ("session_id" \in DOMAIN last.arg
                          /\ last.arg["session_id"] # NoneV)
                    \/ default_session_id # NoneV
          /\ \A f \in DOMAIN StoredLine : StoredLine[f] # NoneV

\* C15 witness: an event was stored whose input had a null optional field,
\* and one without session id in the input.
C15_Witness ==
    /\ Stored
    /\ \E f \in OptionalFields : f \in DOMAIN last.arg /\ last.arg[f] = NoneV
    /\ "session_id" \notin DOMAIN last.arg
    /\ default_session_id = Str(<<"s1">>)
    /\ "session_id" \in DOMAIN StoredLine

\* C16 as stated: whatever the input's level holds, emit does not raise
\* and the stored level is the lower-cased input when that is one of the
\* six levels, and info otherwise.
C16_LevelNormalizationTotal ==
    (last.op = "emit" /\ "level" \in DOMAIN last.arg)
       => /\ last.raised = "none"
          /\ \E path \in DOMAIN files : AppendedTo(path)
          /\ StoredLine["level"] = Str(ExpectedLevel(last.arg["level"]))

\* C16 for a level that is a string, null or another falsy value.
C16_HoldsForStrings ==
    (/\ last.op = "emit"
     /\ "level" \in DOMAIN last.arg
     /\ (last.arg["level"].t = "str" \/ ~Truthy(last.arg["level"])))
       => C16_LevelNormalizationTotal

\* C17: once the cache is filled no step changes it, and an emit made with
\* a filled cache is disabled or enabled, names the service, redacts and
\* files its event as the cached configuration and store directory say,
\* whatever the environment and the config file hold by then; in guck and
\* in hunch.
C17_ResolvedOnce ==
    [][/\ cached.set => cached' = cached
       /\ hunch_cached.set => hunch_cached' = hunch_cached
       /\ (cached.set /\ last'.op = "emit")
             => files' = IF cached.config.enabled /\ ~write_disabled
                         THEN FiledBy(cached, files, last'.arg)
                         ELSE files
       /\ (hunch_cached.set /\ last'.op = "hunch_emit")
             => hunch_store'.files =
                   IF hunch_cached.config.enabled
                   THEN FiledBy(hunch_cached, hunch_store.files, last'.arg)
                   ELSE hunch_store.files]_vars

\* C17 witness: an emit stored its event with a cache filled by an earlier
\* call, in an environment that now resolves to another configuration.
C17_Witness ==
    /\ Stored
    /\ last.pre.cached.set
    /\ cached.config # load_config(env)

FlushedOnce ==
    (last'.op \in {"stop", "exit"} /\ last'.raised = "none")
       => \A kind \in StreamNames :
             /\ Cardinality(AddedBy(files, files', kind)) <= 1
             /\ (/\ sys[kind] # 0
                 /\ \/ last'.op = "stop" /\ last'.arg = sys[kind]
                    \/ last'.op = "exit"
                       /\ \E i \in 1..Len(atexit) : atexit[i] = sys[kind]
                 /\ ~IsBlank(handles[sys[kind]].buffers[kind]))
                   => /\ \E place \in AddedBy(files, files', kind) :
                            files'[place[1]][place[2]]["message"] =
                               Str(handles[sys[kind]].buffers[kind])
                      /\ handles'[sys[kind]].buffers[kind] = <<>>

\* C19 as stated: a non-blank partial line buffered for a captured stream
\* when stop() is called or the process terminates normally is stored as
\* one event exactly once, by whichever of the two runs first, and no
\* second time by the other or by a repeated stop().
C19_PartialLineEmittedOnce == [][FlushedOnce]_vars

\* C19 while no stream is wrapped twice.
C19_HoldsForOneWriter ==
    [][(\A kind \in StreamNames : WrapDepth(sys[kind], kind) <= 1)
          => FlushedOnce]_vars

\* C20 as stated: load_config with a working directory argument and an
\* explicit config path takes a relative path from the working directory
\* argument, not from the process's current directory; when the path is a
\* directory it returns that directory as root_dir and reads the fixed-name
\* file inside it; when it is a file it reads that file and returns its
\* parent as root_dir; in guck and in hunch.
C20_ExplicitPathResolution ==
    (/\ last.op = "load_config"
     /\ last.arg.cwd # <<>>
     /\ last.arg.config_path # <<>>)
       => ExplicitlyLoaded(
             last.ret[1],
             PathJoin(PathJoin(<<>>, last.arg.cwd), last.arg.config_path),
             IF variant = "guck" THEN <<".guck.json">> ELSE <<".hunch.json">>)

\* C20 for guck's load_config.
C20_HoldsForGuck == variant = "guck" => C20_ExplicitPathResolution

\* C21: load_config never raises on a bad config file: when the file is
\* missing, unreadable, not valid JSON, or valid JSON that is not an object,
\* the configuration returned is the built-in defaults with only the
\* overrides of the environment applied.
C21_BadFileGivesDefaults ==
    (Resolution /\ last.arg.file \in BadFiles) =>
       /\ last.raised = "none"
       /\ last.ret[1].config = WithEnvOverrides(Defaults)

C21_Witness ==
    /\ Resolution
    /\ last.arg.file.kind = "array"
    /\ env.GUCK_ENABLED = " FALSE "
    /\ last.raised = "none"
    /\ ~last.ret[1].config.enabled
    /\ last.ret[1].config.redaction.enabled

\* C22: merging a config file into the defaults is sectioned: every
\* top-level scalar the file gives replaces the default; in each nested
\* section (redaction, sdk, mcp) each key the file gives replaces that key
\* alone and every key it omits keeps its default, so the merged sections
\* always hold all default keys.
C22_SectionedMerge ==
    MergedFile =>
       /\ last.raised = "none"
       /\ SectionedMerge(Defaults, last.arg.file.json, last.ret[1].config, {})

\* the merge is sectioned when every section the file gives is an object or
\* is falsy, but that guck drops the key http of the section mcp
C22_HoldsForObjectSections ==
    (/\ MergedFile
     /\ \A section \in Sections :
           section \in DOMAIN last.arg.file.json =>
              \/ ~IsScalar(last.arg.file.json[section])
              \/ ~last.arg.file.json[section].scalar) =>
       /\ last.raised = "none"
       /\ SectionedMerge(Defaults, last.arg.file.json, last.ret[1].config,
                         IF variant = "guck" THEN {"http"} ELSE {})

\* C23: the enabled override of the environment is tri-state and takes
\* precedence over the file: a value that is "true" or "false" after
\* trimming and lower-casing sets config.enabled whatever the file says; an
\* unset variable or any other value leaves enabled as the file or the
\* defaults give it.
C23_EnabledOverrideTriState ==
    (Resolution /\ last.raised = "none") =>
       last.ret[1].config.enabled =
          CASE env.GUCK_ENABLED \in {"true", " true ", "TRUE", "True"} -> TRUE
            [] env.GUCK_ENABLED \in {"false", " false ", " FALSE ", "False"} ->
                  FALSE
            [] OTHER -> FileEnabled

C23_Witness ==
    /\ Resolution
    /\ last.raised = "none"
    /\ env.GUCK_ENABLED = " true "
    /\ ~FileEnabled
    /\ last.ret[1].config.enabled

\* a value that is neither: the file decides
C23_WitnessOther ==
    /\ Resolution
    /\ last.raised = "none"
    /\ env.GUCK_ENABLED = "yes"
    /\ ~FileEnabled
    /\ ~last.ret[1].config.enabled

\* C24: in guck the store directory does not depend on the config file or
\* the root directory: two resolutions that differ only in the content of
\* the file (a store_dir key included) or in the root directory yield the
\* same store directory, which is the store-directory variable of the
\* environment when it is set and non-empty and the fixed per-user default
\* otherwise.
C24_Independent ==
    (/\ variant = "guck"
     /\ Resolution
     /\ last.raised = "none"
     /\ last'.op = "resolve"
     /\ last'.raised = "none") =>
       /\ last'.ret[1].store_dir = last.ret[1].store_dir
       /\ last'.ret[1].store_dir =
             IF env.GUCK_DIR # <<>> THEN env.GUCK_DIR ELSE DEFAULT_STORE_DIR

C24_StoreDirIndependent == [][C24_Independent]_vars

C24_Witness ==
    /\ variant = "guck"
    /\ Resolution
    /\ calls = 2
    /\ last.raised = "none"
    /\ "store_dir" \in DOMAIN read_json_file(last.arg.file)
    /\ last.arg.root_dir # ROOT_DIR
    /\ env.GUCK_DIR = <<>>
    /\ last.ret[1].store_dir = DEFAULT_STORE_DIR

\* C25: over any sequence of emit calls in one process the write-disabled
\* diagnostic is written to the error stream at most once, and only on the
\* call that sets the latch: a call that writes it writes it once, finds the
\* latch clear and leaves it set, and the latch is never cleared.
C25_DiagnosticOnce == [][DiagnosedWithLatch]_vars

\* C25 witness: an emit that failed on a permission error after an earlier
\* call of the host, and wrote the diagnostic.
C25_Witness ==
    /\ last.op = "emit"
    /\ calls >= 2
    /\ Cardinality(Diagnostics(last.trace)) = 1
    /\ ~last.pre.write_disabled
    /\ write_disabled

\* C26 as stated: with two or more threads calling emit at the same time
\* before the cache is filled, the configuration is resolved exactly once
\* and every thread uses the same cached configuration and store directory.
C26_ResolvedOnceAcrossThreads ==
    /\ calls <= 1
    /\ \A t, u \in 1..Len(threads) :
          (threads[t].pc = "done" /\ threads[u].pc = "done") =>
             threads[t].got = threads[u].got

\* C26 while one thread calls emit: one resolution.
C26_HoldsForOneThread == Len(threads) <= 1 => calls <= 1

\* C27: every event emitted for a captured line has type and source.kind
\* equal to the name of the stream the line was written to, and level info
\* for stdout and error for stderr, whether a write emitted the line or the
\* flush of stop or of termination emitted a partial line; the stored events
\* have the same.
C27_LineEventsNameTheirStream ==
    /\ last.op \in {"write", "stop", "exit"} =>
          \A event \in EmittedEvents(last.trace) :
             /\ \E kind \in StreamNames : OfStream(event, kind)
             /\ last.op = "write" => OfStream(event, last.arg.stream)
    /\ \A line \in StoredLines : \E kind \in StreamNames : OfStream(line, kind)

\* C27 witness: a stop flushed a partial line of stderr into a store that
\* holds a line a write to stdout emitted.
C27_Witness ==
    /\ last.op = "stop"
    /\ \E event \in EmittedEvents(last.trace) : OfStream(event, "stderr")
    /\ \E line \in StoredLines : OfStream(line, "stderr")
    /\ \E line \in StoredLines : OfStream(line, "stdout")

\* the flush of termination emitted a partial line
C27_WitnessExit ==
    /\ last.op = "exit"
    /\ \E event \in EmittedEvents(last.trace) : OfStream(event, "stderr")

\* C28: find_repo_root terminates for every starting directory, and returns
\* the nearest directory, among the starting directory and its ancestors,
\* that holds the version-control marker; when no directory up to the root
\* of the file system holds it, it returns the starting directory itself.
C28_FindRepoRootTerminates ==
    /\ Walking ~> Returned
    /\ [](Returned =>
            NearestMarked(Resolved(last.arg.getcwd, last.arg.start_dir),
                          last.arg.start_dir, last.ret[1]))

\* C28 witness: a call from a directory two levels below a marked directory,
\* itself below another marked directory, returned.
C28_Witness ==
    /\ Returned
    /\ Cardinality(MarkedAncestors(Resolved(last.arg.getcwd,
                                            last.arg.start_dir))) = 2
    /\ Len(last.ret[1]) < Len(Resolved(last.arg.getcwd, last.arg.start_dir))

\* a call that found no marker up to the root returned its relative
\* starting directory
C28_WitnessNone ==
    /\ Returned
    /\ last.arg.start_dir = << <<"sub">> >>
    /\ last.ret[1] = << <<"sub">> >>

\* the walk returns what load_config takes as find_repo_root
C28_WalkIsFindRepoRoot ==
    Returned => last.ret[1] = find_repo_root(last.arg.getcwd, last.arg.start_dir)

C29_WitnessDisabled ==
    /\ last.op = "redact_event"
    /\ ~load_config(env).redaction.enabled
    /\ "data" \in DOMAIN last.arg
    /\ last.ret[1] = last.arg

\* C30: when stderr is captured and an emit meets a permission-class
\* failure, the diagnostic written to sys.stderr passes through the
\* capturing writer, which hands its line to emit, without any further
\* store write attempt and without unbounded re-entry into emit: emit is
\* entered again once for each writer the text passes and returns at the
\* latch, which was set before the diagnostic was written.
C30_DiagnosticThroughCapture ==
    (/\ last.op \in GuckCalls
     /\ last.pre.sys["stderr"] # 0
     /\ Diagnostics(last.trace) # {}) =>
       /\ AfterDiagnostic(last.trace, "append") = {}
       /\ AfterDiagnostic(last.trace, "emit") # {}
       /\ Cardinality(AfterDiagnostic(last.trace, "emit")) <= Len(handles)
       /\ write_disabled

\* C30 witness: an emit under a captured stderr met a permission error and
\* its diagnostic came back to emit as a line of stderr.
C30_Witness ==
    /\ last.op = "emit"
    /\ last.pre.sys["stderr"] # 0
    /\ Cardinality(Diagnostics(last.trace)) = 1
    /\ Cardinality(AfterDiagnostic(last.trace, "emit")) = 1
    /\ Cardinality(Attempts(last.trace)) = 1
    /\ last.raised = "none"

\* C31 as stated: whatever strings the service and run_id of an event hold,
\* separators, parent-directory segments and absolute paths included, the
\* file append_event creates or extends lies inside the store directory.
C31_FileInsideStoreDir ==
    \A q \in DOMAIN files : Inside(q, DEFAULT_STORE_DIR)

\* C31 for a service and a run id that are plain names: the file the emit
\* wrote lies inside the store directory.
C31_HoldsForPlainNames ==
    (/\ last.op = "emit"
     /\ PlainName(last.arg["service"].v)
     /\ PlainName(last.arg["run_id"].v)) =>
       /\ last.raised = "none"
       /\ \E q \in DOMAIN files :
             /\ AppendedTo(q)
             /\ Inside(q, DEFAULT_STORE_DIR)

====
